---- MODULE Spec2Model ----
(***************************************************************************)
(* The one-shot bidirectional reconciler of FeishuSync (`npm run update`), *)
(* together with the remote wiki space, the local folder and the manifest  *)
(* file it works on.  File names and titles are sequences of tokens: a     *)
(* token is a run of characters the code never looks inside ("a", "b"), or *)
(* one of the pieces the code does look at (" ", "/", "-", a counter       *)
(* digit, ".remote", ".md").                                               *)
(***************************************************************************)
EXTENDS Integers, Sequences, FiniteSets, TLC

\* ------------------------------------------------------------------ bounds
\* number of external (user / server side) changes in one behaviour
MaxChanges == 3
\* number of remote documents ever created (document ids are never reused)
MaxDocs == 3

\* --------------------------------------------------------------- universes
DocName == <<"d1", "d2", "d3", "d4", "d5", "d6">>
DocIds == {DocName[i] : i \in 1..MaxDocs}

Digit == <<"1", "2", "3", "4", "5", "6", "7", "8", "9">>

\* titles the server side gives to documents
Titles == { <<"a">>, <<"b">>, <<"a", "/">>, <<"a", ".remote">> }
\* block content: what a new document or file holds, and what an edit
\* turns it into
NewBody == <<"x">>
Edited(blocks) == IF blocks = <<"x">> THEN <<"y">> ELSE <<"x">>
\* names under which the user creates Markdown files
UserPaths == { <<"a", ".md">>, <<"a", "-", "1", ".md">> }
\* first-heading titles of the Markdown the user writes
UserTitles == { <<"a">>, <<>> }

MANIFEST_NAME == <<".feishu-sync.json">>

\* ------------------------------------------------------- pure helper code
Last(s) == s[Len(s)]
Front(s) == SubSeq(s, 1, Len(s) - 1)

\* .replace(/[\\/\n\r\t\0]/g, ' ')
ReplaceSeparators(s) == [i \in 1..Len(s) |-> IF s[i] \in {"/", "\\", "\n", "\r", "\t"} THEN " " ELSE s[i]]

\* .replace(/\s+/g, ' ')
RECURSIVE CollapseSpaces(_)
CollapseSpaces(s) ==
  IF Len(s) < 2 THEN s
  ELSE IF s[1] = " " /\ s[2] = " " THEN CollapseSpaces(Tail(s))
  ELSE <<s[1]>> \o CollapseSpaces(Tail(s))

\* .trim()
RECURSIVE Trim(_)
Trim(s) ==
  IF s = <<>> THEN s
  ELSE IF s[1] = " " THEN Trim(Tail(s))
  ELSE IF Last(s) = " " THEN Trim(Front(s))
  ELSE s

sanitizeFilename(name) ==
  LET t == Trim(CollapseSpaces(ReplaceSeparators(name)))
  IN  SubSeq(t, 1, IF Len(t) < 80 THEN Len(t) ELSE 80)

\* fileName.replace(/\.md$/i, '')
StripMd(fileName) ==
  IF fileName # <<>> /\ Last(fileName) \in {".md", ".MD"} THEN Front(fileName) ELSE fileName

RECURSIVE UniqueFrom(_, _, _, _)
UniqueFrom(base, candidate, counter, usedPaths) ==
  IF candidate \in usedPaths
  THEN UniqueFrom(base, base \o <<"-", Digit[counter], ".md">>, counter + 1, usedPaths)
  ELSE candidate

\* mutant: the candidate is returned without looking at usedPaths
ensureUniqueFilePath_NoCheck(fileName, usedPaths) == StripMd(fileName) \o <<".md">>

ensureUniqueFilePath(fileName, usedPaths) ==
  LET base == StripMd(fileName)
  IN  UniqueFrom(base, base \o <<".md">>, 1, usedPaths)

buildConflictPath(relPath) ==
  IF relPath # <<>> /\ Last(relPath) \in {".md", ".MD"}
  THEN Front(relPath) \o <<".remote", ".md">>
  ELSE relPath \o <<".remote", ".md">>

isMarkdownFile(entry) == entry # <<>> /\ Last(entry) \in {".md", ".MD"}

\* the names listMarkdownFiles returns among the names on disk
Listed(name) ==
  /\ name # MANIFEST_NAME
  /\ isMarkdownFile(name)
  /\ ~(Len(name) >= 2 /\ Last(name) = ".md" /\ name[Len(name) - 1] = ".remote")

\* SHA-256, taken to be collision free
sha256(content) == <<"sha256", content>>

\* the codec, at its interface: the Markdown of a document carries the
\* title as first heading and the blocks as body; parsing gives them back
feishuToMarkdown(metadata, blocks) == [title |-> metadata.title, blocks |-> blocks]
markdownToBlocks(markdown) == [title |-> markdown.title, blocks |-> markdown.blocks]

resolveFileType(doc) == doc.fileType

\* ------------------------------------------------------------------ state
VARIABLES
  remote,        \* the wiki space: documentId -> [title, revisionId, blocks, fileType]
  created,       \* number of documents the server has created so far
  files,         \* the sync folder: file name -> content
  manifest,      \* .feishu-sync.json on disk: documentId -> entry
  pc,            \* where the reconciler is: idle, docs, missing, create, write,
                 \* failed (the last pass exited with code 1)
  remoteDocs,    \* the pass's enumeration of the remote documents
  todo,          \* documents of remoteDocs not yet visited by the main loop
  manifestDocs,  \* the pass's in-memory manifest.docs
  localMap,      \* the pass's localMap: file name -> hash
  usedPaths,     \* the pass's usedPaths
  counters,      \* downloaded, uploaded, conflicts, skipped, deletedLocal, deletedRemote
  changes,       \* external changes (and failures) so far
  quiet,         \* no external change since the last completed pass
  follow,        \* the running pass started with quiet = TRUE
  history        \* what is remembered of an aborted pass until the next
                 \* external change or completed pass (used by the claims)

\* one call of writeManifest, seen at the level of the file's bytes
VARIABLES
  raw,           \* the bytes of .feishu-sync.json on disk
  previous,      \* the docs the file held when the call began
  output,        \* the text the call writes
  wpc            \* where the call is: none, start, open, closed, killed

\* one call of apiRequest / apiPost
VARIABLES
  attempt,       \* the loop variable
  response,      \* what the last fetch gave
  requests,      \* HTTP requests sent so far
  waits,         \* the delays slept so far, in ms
  outcome        \* none, running, returned, or the error thrown

\* the orchestrator's subscriptions
VARIABLES
  subscribedDocs,  \* the Set of subscribed document ids
  inflight,        \* caller -> the document whose subscribe request it awaits
  invocations,     \* documentId -> successful calls of the subscribe endpoint
  started          \* main has finished its startup manifest scan

\* the change processor, the local watcher and the poller's flag
VARIABLES
  now,                     \* the clock, in ms
  docState,                \* documentId -> [lastEventAt, lastAction, timer, seq, by]
  pending,                 \* documentId -> the action whose timer fired, or NoAction
  inFlight,                \* the actions being executed
  processing,              \* the processor's flag
  lastProcessCompletedAt,  \* when the last action completed, or Never
  ignoreLocalChanges,      \* the orchestrator's flag
  notices,                 \* file changes the watcher has not reported yet
  stimuli,                 \* remote events, user edits and polls so far
  serverRevision,          \* documentId -> revision on the server
  manifestRevision,        \* documentId -> revisionId of the manifest entry
  events,                  \* log: the events handled, in order of arrival
  runs                     \* log: the actions started, in order

\* the orchestrator's main: startup, the poller and the full-sync child
VARIABLES
  config,        \* config.json: key -> the JSON value it holds, or "missing"
  tokenFile,     \* the token file: missing, empty or ok
  mainpc,        \* where main is: config, initialSync, subscribe, sources, up, exit1
  trace,         \* log: the startup steps and the callbacks handled, in order
  running,       \* startPolling's flag
  polls,         \* calls of pollForNewDocs that have not settled
  child,         \* the update.js child of runFullSync: none, startup, fallback
  reading,       \* who is between reading and writing the manifest -> revision read
  revision,      \* how often the manifest file has been written
  writes,        \* log: the files the engine wrote while the watcher was active
  callbacks      \* interval ticks, watcher callbacks and WebSocket events so far

\* one call of uploadMarkdownToDocument
VARIABLES
  children,      \* the document's top-level children on the server
  newBlocks,     \* what markdownToBlocks gave
  remaining,     \* deleteAllChildren's variable
  index,         \* appendBlocksWithTables's variable
  buffer,        \* appendBlocksWithTables's buffer
  position,      \* newBlocks[1..position] have been looked at
  calls,         \* log: the requests sent, in order
  upc            \* where the call is: none, count, delete, append, done

\* one call of createDocumentFromMarkdown
VARIABLES
  docTitle,      \* the title markdownToBlocks gave ("" when there is none)
  posts,         \* log: the create-document requests sent, in order
  titleUsed,     \* createDocument's usedTitle
  fileBlocks,    \* the blocks markdownToBlocks gave
  cpc            \* where the call is: none, create, retry, append, done, failed

\* one paginated listing
VARIABLES
  pages,         \* the pages the server has returned, in order
  collected,     \* the items pushed so far
  pageToken,     \* the loop's pageToken ("undefined" before the first page)
  hasMore,       \* the loop's hasMore
  sent           \* log: the page_token parameter of each request

\* the supervisor's stop command
VARIABLES
  pidFiles,      \* PID file -> its content, or "absent"
  alive,         \* the PIDs process.kill(pid, 0) succeeds for
  signals,       \* log: the PIDs SIGTERM was sent to, in order
  held,          \* what stop read from the PID files
  spc            \* where stop is: none, read, sync, auth, done, failed

\* the supervisor's start command
VARIABLES
  starters,      \* invocation of start -> [worker, at, pid, child]: where it is,
                 \* what it read from the PID file, the PID of what it spawned
  spawned,       \* the workers start knows of: [worker, pid], recorded in a PID
                 \* file at the beginning or spawned since
  tokenText,     \* the token file: [exists, raw]
  tokenWasSet    \* history: the token file has held content at some time

world == <<remote, created, files>>
pass == <<pc, remoteDocs, todo, manifestDocs, localMap, usedPaths, counters, follow>>
reconciler == <<remote, created, files, manifest, pc, remoteDocs, todo, manifestDocs,
                localMap, usedPaths, counters, changes, quiet, follow, history>>
writer == <<raw, previous, output, wpc>>
api == <<attempt, response, requests, waits, outcome>>
subscriptions == <<subscribedDocs, inflight, invocations, started>>
processor == <<now, docState, pending, inFlight, processing, lastProcessCompletedAt,
               ignoreLocalChanges, notices, stimuli, serverRevision, manifestRevision,
               events, runs>>
orchestrator == <<config, tokenFile, mainpc, trace, running, polls, child, reading,
                  revision, writes, callbacks>>
uploader == <<children, newBlocks, remaining, index, buffer, position, calls, upc>>
creator == <<docTitle, posts, titleUsed, fileBlocks, cpc>>
listing == <<pages, collected, pageToken, hasMore, sent>>
starting == <<starters, spawned, tokenText, tokenWasSet>>
supervisor == <<pidFiles, alive, signals, held, spc, starting>>
tools == <<uploader, creator, listing, supervisor>>
vars == <<reconciler, writer, api, subscriptions, processor, orchestrator, tools>>
\* what the reconciler's steps leave alone
others == <<writer, api, subscriptions, processor, orchestrator, tools>>

Empty == [x \in {} |-> {}]
Zero == [downloaded |-> 0, uploaded |-> 0, conflicts |-> 0, skipped |-> 0,
         deletedLocal |-> 0, deletedRemote |-> 0]

\* f without key k / f with key k set to v
Drop(f, k) == [x \in DOMAIN f \ {k} |-> f[x]]
Put(f, k, v) == [x \in DOMAIN f \cup {k} |-> IF x = k THEN v ELSE f[x]]
Bump(c, field) == [c EXCEPT ![field] = @ + 1]

\* no pass has been aborted: listed are the local files the running pass
\* found at its start; of an aborted pass, made are the documents it had
\* created from local files (with the file), kept the manifested
\* documents whose local file was there when it started
NoHistory == [on |-> FALSE, listed |-> {}, made |-> {}, kept |-> {}]

\* no pass is running
Resting == {"idle", "failed"}

\* no call of writeManifest is being looked at
NoWriter == raw = <<>> /\ previous = {} /\ output = <<>> /\ wpc = "none"

\* the reconciler before its first pass: nothing on either side
InitReconciler ==
  /\ remote = Empty
  /\ created = 0
  /\ files = Empty
  /\ manifest = Empty
  /\ pc = "idle"
  /\ remoteDocs = Empty
  /\ todo = {}
  /\ manifestDocs = Empty
  /\ localMap = Empty
  /\ usedPaths = {}
  /\ counters = Zero
  /\ changes = 0
  /\ quiet = FALSE
  /\ follow = FALSE
  /\ history = NoHistory

\* no fetch was made yet
NoResponse == [rejects |-> FALSE, status |-> 0, retryAfter |-> "null", text |-> ""]
\* no call of apiRequest is being looked at
NoApi ==
  attempt = 0 /\ response = NoResponse /\ requests = 0 /\ waits = <<>> /\ outcome = "none"

\* who calls subscribeToDocument: the startup manifest scan, the manifest
\* scan after a full sync, the poller, the change processor
Callers == {"startup", "fullSync", "poller", "processor"}
\* the orchestrator is not being looked at
NoSubscriptions ==
  /\ subscribedDocs = {}
  /\ inflight = [c \in Callers |-> "none"]
  /\ invocations = [d \in {} |-> 0]
  /\ started = FALSE

\* the change processor is not being looked at
NoProcessor ==
  /\ now = 0
  /\ docState = Empty
  /\ pending = Empty
  /\ inFlight = {}
  /\ processing = FALSE
  /\ lastProcessCompletedAt = 0
  /\ ignoreLocalChanges = FALSE
  /\ notices = {}
  /\ stimuli = 0
  /\ serverRevision = Empty
  /\ manifestRevision = Empty
  /\ events = <<>>
  /\ runs = <<>>

\* the orchestrator's main is not being looked at
NoOrchestrator ==
  /\ config = <<>>
  /\ tokenFile = "ok"
  /\ mainpc = "none"
  /\ trace = <<>>
  /\ running = FALSE
  /\ polls = 0
  /\ child = "none"
  /\ reading = {}
  /\ revision = 0
  /\ writes = {}
  /\ callbacks = 0

\* no call of uploadMarkdownToDocument is being looked at
NoUploader ==
  /\ children = <<>>
  /\ newBlocks = <<>>
  /\ remaining = 0
  /\ index = 0
  /\ buffer = <<>>
  /\ position = 0
  /\ calls = <<>>
  /\ upc = "none"

\* no call of createDocumentFromMarkdown is being looked at
NoCreator ==
  docTitle = "" /\ posts = <<>> /\ titleUsed = FALSE /\ fileBlocks = <<>> /\ cpc = "none"

\* no listing is being looked at
NoListing ==
  pages = <<>> /\ collected = <<>> /\ pageToken = "undefined" /\ hasMore = FALSE /\ sent = <<>>

\* the supervisor is not being looked at
\* no invocation of start is being looked at
NoStarting ==
  /\ starters = <<>>
  /\ spawned = {}
  /\ tokenText = [exists |-> FALSE, raw |-> <<>>]
  /\ tokenWasSet = FALSE

NoSupervisor ==
  pidFiles = <<>> /\ alive = {} /\ signals = <<>> /\ held = <<>>
  /\ spc = [worker |-> "none", at |-> "none"]
  /\ NoStarting

NoTools == NoUploader /\ NoCreator /\ NoListing /\ NoSupervisor

Init ==
  InitReconciler /\ NoWriter /\ NoApi /\ NoSubscriptions /\ NoProcessor /\ NoOrchestrator
  /\ NoTools

\* ------------------------------------------------------- external changes
External(w) ==
  /\ pc \in Resting
  /\ changes < MaxChanges
  /\ changes' = changes + 1
  /\ quiet' = FALSE
  /\ history' = NoHistory
  /\ UNCHANGED <<manifest, pass>>
  /\ w

RemoteCreate ==
  \E t \in Titles :
    External(/\ created < MaxDocs
             /\ created' = created + 1
             /\ remote' = Put(remote, DocName[created + 1],
                              [title |-> t, revisionId |-> 1, blocks |-> NewBody, fileType |-> "docx"])
             /\ UNCHANGED files)

RemoteEdit ==
  \E d \in DOMAIN remote :
    External(/\ remote' = [remote EXCEPT ![d].blocks = Edited(@), ![d].revisionId = @ + 1]
             /\ UNCHANGED <<created, files>>)

RemoteRetitle ==
  \E d \in DOMAIN remote, t \in Titles, adv \in 0..1 :
    External(/\ t # remote[d].title
             /\ remote' = [remote EXCEPT ![d].title = t, ![d].revisionId = @ + adv]
             /\ UNCHANGED <<created, files>>)

RemoteDelete ==
  \E d \in DOMAIN remote :
    External(/\ remote' = Drop(remote, d)
             /\ UNCHANGED <<created, files>>)

LocalCreate ==
  \E p \in UserPaths \ DOMAIN files, t \in UserTitles :
    External(/\ files' = Put(files, p, [title |-> t, blocks |-> NewBody])
             /\ UNCHANGED <<remote, created>>)

LocalEdit ==
  \E p \in DOMAIN files :
    External(/\ Listed(p)
             /\ files' = [files EXCEPT ![p].blocks = Edited(@)]
             /\ UNCHANGED <<remote, created>>)

LocalDelete ==
  \E p \in DOMAIN files :
    External(/\ Listed(p)
             /\ files' = Drop(files, p)
             /\ UNCHANGED <<remote, created>>)

\* fs.unlink, ENOENT being swallowed
\* mutant: the file is left on disk
deleteLocalFile_Keeps(f, filePath) == f

deleteLocalFile(f, filePath) == IF filePath \in DOMAIN f THEN Drop(f, filePath) ELSE f

\* --------------------------------------------------- the remote API calls
\* deleteAllChildren then appendBlocksWithTables: each write request that
\* changes the document advances its revision
uploadMarkdownToDocument(document, markdown) ==
  [document EXCEPT !.blocks = markdownToBlocks(markdown).blocks,
                   !.revisionId = @ + (IF document.blocks # <<>> THEN 1 ELSE 0)
                                    + (IF markdownToBlocks(markdown).blocks # <<>> THEN 1 ELSE 0)]

\* createDocument with the parsed title (empty title: no title is sent and
\* a heading block is prepended), appendBlocksWithTables, addDocToWiki
createDocumentFromMarkdown(markdown) ==
  LET parsed == markdownToBlocks(markdown)
      usedTitle == parsed.title # <<>>
      contentBlocks == IF usedTitle THEN parsed.blocks ELSE <<"h1">> \o parsed.blocks
  IN  [title |-> parsed.title, revisionId |-> 2, blocks |-> contentBlocks, fileType |-> "docx"]

\* fetchAllBlocks + feishuToMarkdown: the Markdown written by a download
downloadDocumentToFile(d, metadata) == feishuToMarkdown(metadata, remote[d].blocks)

\* ------------------------------------------------------ the reconciler
Entry(file, revisionId, title, fileType, hash) ==
  [file |-> file, revisionId |-> revisionId, title |-> title, fileType |-> fileType, hash |-> hash]

EntryFiles(docs) == {docs[d].file : d \in DOMAIN docs}

\* manifest entries whose document the enumeration did not return
MissingRemote(docs) == {d \in DOMAIN docs : d \notin DOMAIN remoteDocs}
\* mutant: the loop does not consult fileToDoc
Unpaired_All(docs, lmap) == DOMAIN lmap

\* local files that are the file of no entry
Unpaired(docs, lmap) == {p \in DOMAIN lmap : p \notin EntryFiles(docs)}

AfterDocs(td, docs, lmap) ==
  IF td # {} THEN "docs"
  ELSE IF MissingRemote(docs) # {} THEN "missing"
  ELSE IF Unpaired(docs, lmap) # {} THEN "create"
  ELSE "write"
AfterMissing(docs, lmap) ==
  IF MissingRemote(docs) # {} THEN "missing"
  ELSE IF Unpaired(docs, lmap) # {} THEN "create"
  ELSE "write"
AfterCreate(docs, lmap) ==
  IF Unpaired(docs, lmap) # {} THEN "create" ELSE "write"

\* readManifest, listMarkdownFiles + hashFile, collectWikiDocNodes +
\* fetchDocumentMeta, usedPaths
StartPass ==
  /\ pc \in Resting
  /\ LET lmap == [p \in {q \in DOMAIN files : Listed(q)} |-> sha256(files[p])]
     IN  /\ manifestDocs' = manifest
         /\ localMap' = lmap
         /\ remoteDocs' = [d \in DOMAIN remote |->
                             [documentId |-> d, title |-> remote[d].title,
                              revisionId |-> remote[d].revisionId,
                              fileType |-> remote[d].fileType]]
         /\ usedPaths' = DOMAIN lmap \cup EntryFiles(manifest)
         /\ todo' = DOMAIN remote
         /\ pc' = AfterDocs(DOMAIN remote, manifest, lmap)
         /\ history' = IF history.on THEN history
                       ELSE [NoHistory EXCEPT !.listed = DOMAIN lmap]
  /\ counters' = Zero
  /\ follow' = quiet
  /\ UNCHANGED <<world, manifest, changes, quiet>>

\* --- the per-document step of the main loop, in the code's order
existing(d) == d \in DOMAIN manifestDocs
\* mutant: the title is used as it comes
baseName_Unsanitized(d) == IF remoteDocs[d].title # <<>> THEN remoteDocs[d].title ELSE <<d>>

baseName(d) ==
  IF sanitizeFilename(remoteDocs[d].title) # <<>> THEN sanitizeFilename(remoteDocs[d].title) ELSE <<d>>
renameCandidates(d) == IF existing(d) THEN usedPaths \ {manifestDocs[d].file} ELSE usedPaths
desiredRel(d) == ensureUniqueFilePath(baseName(d) \o <<".md">>, renameCandidates(d))

\* fs.rename: the file at oldRel is afterwards at newRel (replacing what was there)
Move(f, oldRel, newRel) ==
  [x \in (DOMAIN f \ {oldRel}) \cup {newRel} |-> IF x = newRel THEN f[oldRel] ELSE f[x]]

\* mutant: the entry and the maps are renamed, the file on disk is not
RenameStep_NoMove(d, desired) ==
  IF existing(d) /\ desired # manifestDocs[d].file
  THEN [renamed |-> TRUE,
        fileRel |-> desired,
        files |-> files,
        localMap |-> IF manifestDocs[d].file \in DOMAIN localMap
                     THEN Move(localMap, manifestDocs[d].file, desired) ELSE localMap,
        usedPaths |-> (usedPaths \ {manifestDocs[d].file}) \cup {desired},
        docs |-> [manifestDocs EXCEPT ![d].file = desired]]
  ELSE [renamed |-> FALSE,
        fileRel |-> IF existing(d) THEN manifestDocs[d].file ELSE desired,
        files |-> files, localMap |-> localMap, usedPaths |-> usedPaths, docs |-> manifestDocs]

\* fileRel and the pass's view after `if (!fileRel) ... else if (desiredRel !== fileRel)`;
\* fs.rename is called only when localMap holds the old name
RenameStep(d, desired) ==
  IF existing(d) /\ desired # manifestDocs[d].file
  THEN [renamed |-> TRUE,
        fileRel |-> desired,
        files |-> IF manifestDocs[d].file \in DOMAIN localMap
                  THEN Move(files, manifestDocs[d].file, desired) ELSE files,
        localMap |-> IF manifestDocs[d].file \in DOMAIN localMap
                     THEN Move(localMap, manifestDocs[d].file, desired) ELSE localMap,
        usedPaths |-> (usedPaths \ {manifestDocs[d].file}) \cup {desired},
        docs |-> [manifestDocs EXCEPT ![d].file = desired]]
  ELSE [renamed |-> FALSE,
        fileRel |-> IF existing(d) THEN manifestDocs[d].file ELSE desired,
        files |-> files, localMap |-> localMap, usedPaths |-> usedPaths, docs |-> manifestDocs]

localChanged(d, r) == manifestDocs[d].hash # r.localMap[r.fileRel]
remoteChanged(d) == manifestDocs[d].revisionId # remoteDocs[d].revisionId

\* mutant: a remote change wins over a local one
Branch_NoConflict(d, r) ==
  IF ~existing(d) THEN "new"
  ELSE IF r.fileRel \notin DOMAIN r.localMap THEN "deleteRemote"
  ELSE IF remoteChanged(d) THEN "download"
  ELSE IF localChanged(d, r) THEN "upload"
  ELSE "skip"

\* mutant: a missing local file is downloaded again
Branch_MissingRedownloads(d, r) ==
  IF ~existing(d) \/ r.fileRel \notin DOMAIN r.localMap THEN "new"
  ELSE IF remoteChanged(d) /\ localChanged(d, r) THEN "conflict"
  ELSE IF remoteChanged(d) THEN "download"
  ELSE IF localChanged(d, r) THEN "upload"
  ELSE "skip"

\* mutant: whatever is not a remote change is uploaded
Branch_UploadsUnchanged(d, r) ==
  IF ~existing(d) THEN "new"
  ELSE IF r.fileRel \notin DOMAIN r.localMap THEN "deleteRemote"
  ELSE IF remoteChanged(d) /\ localChanged(d, r) THEN "conflict"
  ELSE IF remoteChanged(d) THEN "download"
  ELSE "upload"

\* mutant: when both sides have changed the local file is uploaded
Branch_LocalWins(d, r) ==
  IF ~existing(d) THEN "new"
  ELSE IF r.fileRel \notin DOMAIN r.localMap THEN "deleteRemote"
  ELSE IF localChanged(d, r) THEN "upload"
  ELSE IF remoteChanged(d) THEN "download"
  ELSE "skip"

\* which of the loop body's branches runs for d, r being RenameStep's result
Branch(d, r) ==
  IF ~existing(d) THEN "new"
  ELSE IF r.fileRel \notin DOMAIN r.localMap THEN "deleteRemote"
  ELSE IF remoteChanged(d) /\ localChanged(d, r) THEN "conflict"
  ELSE IF remoteChanged(d) THEN "download"
  ELSE IF localChanged(d, r) THEN "upload"
  ELSE "skip"

Metadata(d) == [document_id |-> d, revision_id |-> remoteDocs[d].revisionId, title |-> remoteDocs[d].title]

\* the entry written by the new-document and the remote-changed branches
\* mutant: the hash known before the download is kept
DownloadedEntry_StaleHash(d, r, markdown) ==
  Entry(r.fileRel, remoteDocs[d].revisionId, remoteDocs[d].title, resolveFileType(remoteDocs[d]),
        IF r.fileRel \in DOMAIN r.localMap THEN r.localMap[r.fileRel] ELSE sha256(markdown))

DownloadedEntry(d, r, markdown) ==
  Entry(r.fileRel, remoteDocs[d].revisionId, remoteDocs[d].title, resolveFileType(remoteDocs[d]),
        sha256(markdown))

\* the entry written by the local-changed branch, meta being fetched after the upload
\* mutant: the revision enumerated before the upload is recorded
UploadedEntry_OldRevision(d, r, meta) ==
  Entry(r.fileRel, remoteDocs[d].revisionId, meta.title, resolveFileType(remoteDocs[d]),
        r.localMap[r.fileRel])

UploadedEntry(d, r, meta) ==
  Entry(r.fileRel, meta.revisionId, meta.title, resolveFileType(remoteDocs[d]), r.localMap[r.fileRel])

\* the entry written by the skipped branch
SkippedEntry(d, r) ==
  Entry(r.fileRel, remoteDocs[d].revisionId, remoteDocs[d].title, resolveFileType(remoteDocs[d]),
        r.localMap[r.fileRel])

\* manifestDocs after the branch
BranchDocs(d, r, b, markdown, uploadedDoc) ==
  CASE b = "new" -> Put(r.docs, d, DownloadedEntry(d, r, markdown))
    [] b = "deleteRemote" -> Drop(r.docs, d)
    [] b = "conflict" -> r.docs
    [] b = "download" -> Put(r.docs, d, DownloadedEntry(d, r, markdown))
    [] b = "upload" -> Put(r.docs, d, UploadedEntry(d, r, uploadedDoc))
    [] b = "skip" -> Put(r.docs, d, SkippedEntry(d, r))

\* mutant: the conflict branch writes the server content over the local file
BranchFiles_ConflictOverwrites(r, b, markdown) ==
  CASE b \in {"new", "download", "conflict"} -> Put(r.files, r.fileRel, markdown)
    [] OTHER -> r.files

BranchFiles(r, b, markdown) ==
  CASE b \in {"new", "download"} -> Put(r.files, r.fileRel, markdown)
    [] b = "conflict" -> Put(r.files, buildConflictPath(r.fileRel), markdown)
    [] OTHER -> r.files

BranchCounter(b) ==
  CASE b = "new" -> "downloaded"
    [] b = "deleteRemote" -> "deletedRemote"
    [] b = "conflict" -> "conflicts"
    [] b = "download" -> "downloaded"
    [] b = "upload" -> "uploaded"
    [] b = "skip" -> "skipped"

ProcessDoc(d) ==
  /\ pc = "docs"
  /\ d \in todo
  /\ \E desired \in {desiredRel(d)} :
     \E r \in {RenameStep(d, desired)} :
     \E b \in {Branch(d, r)} :
     \E markdown \in {downloadDocumentToFile(d, Metadata(d))} :
     \E uploadedDoc \in {IF b = "upload" THEN uploadMarkdownToDocument(remote[d], r.files[r.fileRel])
                         ELSE remote[d]} :
     \E docs2 \in {BranchDocs(d, r, b, markdown, uploadedDoc)} :
     \E lmap2 \in {IF b \in {"new", "download"} THEN Put(r.localMap, r.fileRel, sha256(markdown))
                   ELSE r.localMap} :
       /\ files' = BranchFiles(r, b, markdown)
       /\ remote' = CASE b = "deleteRemote" -> Drop(remote, d)
                      [] b = "upload" -> [remote EXCEPT ![d] = uploadedDoc]
                      [] OTHER -> remote
       /\ manifestDocs' = docs2
       /\ localMap' = lmap2
       /\ usedPaths' = IF b = "new" THEN r.usedPaths \cup {r.fileRel} ELSE r.usedPaths
       /\ counters' = Bump(counters, BranchCounter(b))
       /\ todo' = todo \ {d}
       /\ pc' = AfterDocs(todo \ {d}, docs2, lmap2)
  /\ UNCHANGED <<created, manifest, remoteDocs, changes, quiet, follow, history>>

\* the loop over manifest entries whose document is not in remoteMap
RemoteMissing(d) ==
  /\ pc = "missing"
  /\ d \in MissingRemote(manifestDocs)
  /\ LET rel == manifestDocs[d].file
         has == rel \in DOMAIN localMap
         docs2 == Drop(manifestDocs, d)
         lmap2 == IF has THEN Drop(localMap, rel) ELSE localMap
     IN  /\ files' = IF has THEN deleteLocalFile(files, rel) ELSE files
         /\ localMap' = lmap2
         /\ counters' = IF has THEN Bump(counters, "deletedLocal") ELSE counters
         /\ manifestDocs' = docs2
         /\ pc' = AfterMissing(docs2, lmap2)
  /\ UNCHANGED <<remote, created, manifest, remoteDocs, todo, usedPaths, changes, quiet, follow, history>>

\* the loop over local files that fileToDoc does not hold
CreateFromLocal(p) ==
  /\ pc = "create"
  /\ p \in Unpaired(manifestDocs, localMap)
  /\ created < MaxDocs
  /\ LET newDocId == DocName[created + 1]
         document == createDocumentFromMarkdown(files[p])
         docs2 == Put(manifestDocs, newDocId,
                      Entry(p, document.revisionId, document.title, "docx", localMap[p]))
     IN  /\ remote' = Put(remote, newDocId, document)
         /\ created' = created + 1
         /\ manifestDocs' = docs2
         /\ counters' = Bump(counters, "uploaded")
         /\ pc' = AfterCreate(docs2, localMap)
  /\ UNCHANGED <<files, manifest, remoteDocs, todo, localMap, usedPaths, changes, quiet, follow, history>>

\* writeManifest, the last statement of the pass
WriteManifest ==
  /\ pc = "write"
  /\ manifest' = manifestDocs
  /\ pc' = "idle"
  /\ quiet' = TRUE
  /\ remoteDocs' = Empty
  /\ todo' = {}
  /\ manifestDocs' = Empty
  /\ localMap' = Empty
  /\ usedPaths' = {}
  /\ counters' = Zero
  /\ follow' = FALSE
  /\ history' = NoHistory
  /\ UNCHANGED <<world, changes>>

\* what is remembered when the running pass is aborted
Aborted ==
  [on |-> TRUE,
   listed |-> history.listed,
   made |-> history.made \cup
            {<<d, manifestDocs[d].file>> :
               d \in DOMAIN manifestDocs \ (DOMAIN remoteDocs \cup DOMAIN manifest)},
   kept |-> IF history.on THEN history.kept
            ELSE {d \in DOMAIN manifest : manifest[d].file \in history.listed}]

\* mutant: a failing pass saves what it has done so far
FailPass_Saves ==
  /\ pc \in {"docs", "missing", "create"}
  /\ changes < MaxChanges
  /\ changes' = changes + 1
  /\ manifest' = manifestDocs
  /\ pc' = "failed"
  /\ quiet' = FALSE
  /\ remoteDocs' = Empty
  /\ todo' = {}
  /\ manifestDocs' = Empty
  /\ localMap' = Empty
  /\ usedPaths' = {}
  /\ follow' = FALSE
  /\ history' = Aborted
  /\ UNCHANGED <<world, counters>>

\* an awaited call of one of the loops throws (API error, filesystem
\* error): main().catch prints the error and exits with code 1; the
\* counters are kept as the record of what the pass had done, and a
\* failure counts as one of the changes the environment makes
FailPass ==
  /\ pc \in {"docs", "missing", "create"}
  /\ changes < MaxChanges
  /\ changes' = changes + 1
  /\ pc' = "failed"
  /\ quiet' = FALSE
  /\ remoteDocs' = Empty
  /\ todo' = {}
  /\ manifestDocs' = Empty
  /\ localMap' = Empty
  /\ usedPaths' = {}
  /\ follow' = FALSE
  /\ history' = Aborted
  /\ UNCHANGED <<world, manifest, counters>>

Next ==
  \/ RemoteCreate /\ UNCHANGED others
  \/ RemoteEdit /\ UNCHANGED others
  \/ RemoteRetitle /\ UNCHANGED others
  \/ RemoteDelete /\ UNCHANGED others
  \/ LocalCreate /\ UNCHANGED others
  \/ LocalEdit /\ UNCHANGED others
  \/ LocalDelete /\ UNCHANGED others
  \/ StartPass /\ UNCHANGED others
  \/ \E d \in DocIds : ProcessDoc(d) /\ UNCHANGED others
  \/ \E d \in DocIds : RemoteMissing(d) /\ UNCHANGED others
  \/ \E p \in DOMAIN files : CreateFromLocal(p) /\ UNCHANGED others
  \/ WriteManifest /\ UNCHANGED others

Spec == Init /\ [][Next]_vars

\* the reconciler with passes that may fail
NextFail ==
  \/ Next
  \/ FailPass /\ UNCHANGED others

SpecFail == Init /\ [][NextFail]_vars

TypeOK ==
  /\ pc \in {"idle", "docs", "missing", "create", "write", "failed"}
  /\ DOMAIN remote \subseteq DocIds
  /\ DOMAIN manifest \subseteq DocIds

\* ------------------------------------------------------------ the claims
\* In the claims a document's local file is the file the local walker
\* enumerates at the entry's path (spec 3, "Local file set").

\* the main loop visits document d in this step
Visits(d) == pc = "docs" /\ d \in todo /\ d \notin todo'
Paired(d) == d \in DOMAIN manifestDocs
LocalPresent(d) == manifestDocs[d].file \in DOMAIN files /\ Listed(manifestDocs[d].file)
LocalBytes(d) == files[manifestDocs[d].file]
\* what the server holds for d, as Markdown
ServerMarkdown(d) == [title |-> remote[d].title, blocks |-> remote[d].blocks]
OnlyCounts(field) == counters' = [counters EXCEPT ![field] = @ + 1]

\* C1 (P1, manifest uniqueness): in the manifest file, which only completed
\* passes write, no two entries have the same `file`.
C1_ManifestFilesDistinct ==
  \A a \in DOMAIN manifest, b \in DOMAIN manifest : a # b => manifest[a].file # manifest[b].file

\* C1 witness: the manifest pairs two documents that carry the same title
\* now with two different files.
C1_Witness ==
  \E a \in DOMAIN manifest, b \in DOMAIN manifest :
    /\ a # b
    /\ a \in DOMAIN remote /\ b \in DOMAIN remote
    /\ remote[a].title = remote[b].title
    /\ manifest[a].title = manifest[b].title
    /\ manifest[a].file # manifest[b].file

\* C2 (P2, idempotence): a pass that started right after a completed pass,
\* with no external change in between, ends with zero downloads, uploads,
\* local deletions, remote deletions and conflict saves.
C2_SecondPassDoesNothing ==
  (follow /\ pc = "write") =>
    /\ counters.downloaded = 0
    /\ counters.uploaded = 0
    /\ counters.deletedLocal = 0
    /\ counters.deletedRemote = 0
    /\ counters.conflicts = 0

\* the local files of the folder (what the walker enumerates)
LocalFiles(f) == {p \in DOMAIN f : Listed(p)}
\* <stem>.remote.md beside p
ConflictCopy(p) == Front(p) \o <<".remote", ".md">>
EntryOf(d) == manifestDocs[d]
LocalHashDiffers(d) == sha256(LocalBytes(d)) # manifestDocs[d].hash
RevisionDiffers(d) == remote[d].revisionId # manifestDocs[d].revisionId
\* the files are those of f, except that the file at old is now at new
SameBytesUpToRename(f, g, old, new) ==
  \A p \in LocalFiles(f) :
    IF p = old THEN new \in DOMAIN g /\ g[new] = f[old]
    ELSE p \in DOMAIN g /\ g[p] = f[p]

\* C3 (conflict): visiting a paired document whose local hash differs from
\* the manifest hash and whose server revision differs from the manifest
\* revision writes the server content to <stem>.remote.md, keeps the bytes of
\* the paired file, keeps the entry's hash and revisionId, writes nothing to
\* the remote side and adds one to conflicts and to no other counter.
C3_ConflictSavesRemoteCopy ==
  [][\A d \in DocIds :
       (Visits(d) /\ Paired(d) /\ LocalPresent(d) /\ LocalHashDiffers(d) /\ RevisionDiffers(d)) =>
         /\ d \in DOMAIN manifestDocs'
         /\ ConflictCopy(manifestDocs'[d].file) \in DOMAIN files'
         /\ files'[ConflictCopy(manifestDocs'[d].file)] = ServerMarkdown(d)
         /\ SameBytesUpToRename(files, files', manifestDocs[d].file, manifestDocs'[d].file)
         /\ manifestDocs'[d].hash = manifestDocs[d].hash
         /\ manifestDocs'[d].revisionId = manifestDocs[d].revisionId
         /\ remote' = remote
         /\ OnlyCounts("conflicts")]_vars

\* C3 witness: a pass has counted a conflict: the edited local file and the
\* remote copy beside it hold different bytes, the entry still has the old
\* hash and revision.
C3_Witness ==
  \E d \in DOMAIN manifestDocs :
    /\ pc # "idle" /\ counters.conflicts = 1 /\ d \notin todo /\ d \in DOMAIN remote
    /\ manifestDocs[d].file \in DOMAIN files
    /\ ConflictCopy(manifestDocs[d].file) \in DOMAIN files
    /\ files[ConflictCopy(manifestDocs[d].file)] = ServerMarkdown(d)
    /\ files[manifestDocs[d].file] # ServerMarkdown(d)
    /\ sha256(files[manifestDocs[d].file]) # manifestDocs[d].hash
    /\ remote[d].revisionId # manifestDocs[d].revisionId

\* C4 (local delete => remote delete): visiting a paired document that has
\* no local file at the entry's path deletes the remote document, removes
\* the entry, writes no file and adds one to deletedRemote only.
C4_LocalMissingDeletesRemote ==
  [][\A d \in DocIds :
       (Visits(d) /\ Paired(d) /\ ~LocalPresent(d)) =>
         /\ d \notin DOMAIN remote'
         /\ \A e \in DOMAIN remote \ {d} : e \in DOMAIN remote' /\ remote'[e] = remote[e]
         /\ d \notin DOMAIN manifestDocs'
         /\ files' = files
         /\ OnlyCounts("deletedRemote")]_vars

\* C4 witness: a pass has deleted the remote document of an entry of the
\* manifest file whose local file the user removed.
C4_Witness ==
  \E d \in DOMAIN manifest :
    /\ pc # "idle" /\ counters.deletedRemote = 1
    /\ d \in DOMAIN remoteDocs /\ d \notin DOMAIN remote /\ d \notin DOMAIN manifestDocs
    /\ manifest[d].file \notin DOMAIN files

\* the missing-loop handles entry d in this step
Forgets(d) == pc = "missing" /\ d \in DOMAIN manifestDocs /\ d \notin DOMAIN manifestDocs'

\* C5 (remote delete => local delete): an entry whose document the
\* enumeration did not return is removed by the pass; its local file, if
\* there is one, is deleted and cannot be picked up by the creation loop;
\* no document is created or written remotely for it; deletedLocal grows by
\* the number of local files deleted, and no entry without a remote
\* document is left when the loop is over.
C5_RemoteMissingDeletesLocal ==
  [][/\ \A d \in DocIds :
          Forgets(d) =>
            /\ d \notin DOMAIN remoteDocs
            /\ manifestDocs[d].file \notin LocalFiles(files')
            /\ manifestDocs[d].file \notin DOMAIN localMap'
            /\ \A p \in DOMAIN files \ {manifestDocs[d].file} : p \in DOMAIN files' /\ files'[p] = files[p]
            /\ remote' = remote /\ created' = created
            /\ counters'.deletedLocal - counters.deletedLocal
                 = Cardinality(LocalFiles(files)) - Cardinality(LocalFiles(files'))
            /\ \A c \in DOMAIN counters \ {"deletedLocal"} : counters'[c] = counters[c]
     /\ pc' \in {"create", "write"} =>
          \A d \in DOMAIN manifestDocs' : d \in DOMAIN manifest => d \in DOMAIN remoteDocs']_vars

\* C5 witness: a pass has deleted the local file of an entry whose document
\* is gone from the wiki space.
C5_Witness ==
  \E d \in DOMAIN manifest :
    /\ pc \in {"create", "write"} /\ counters.deletedLocal = 1
    /\ d \notin DOMAIN remote /\ d \notin DOMAIN manifestDocs
    /\ manifest[d].file \notin DOMAIN files

\* the names a title can give: <base>.md, <base>-1.md, <base>-2.md, ...
\* where base is the sanitized title, or the document id when that is empty
TitleBase(d) == IF sanitizeFilename(remote[d].title) = <<>> THEN <<d>> ELSE sanitizeFilename(remote[d].title)
TitleNames(d) == {TitleBase(d) \o <<".md">>} \cup {TitleBase(d) \o <<"-", Digit[k], ".md">> : k \in 1..9}

\* C6 (fresh pairing): visiting a remote document that has no entry writes
\* the server content to a title-derived name that is neither a local file
\* nor the file of an entry, changes no other file, adds exactly the entry
\* of that document with hash = SHA-256 of the written content and
\* revisionId = the server's revision, and adds one to downloaded only.
C6_NewDocumentDownloaded ==
  [][\A d \in DocIds :
       (Visits(d) /\ ~Paired(d)) =>
         /\ DOMAIN manifestDocs' = DOMAIN manifestDocs \cup {d}
         /\ \A e \in DOMAIN manifestDocs : manifestDocs'[e] = manifestDocs[e]
         /\ manifestDocs'[d].file \in TitleNames(d)
         /\ manifestDocs'[d].file \notin LocalFiles(files)
         /\ manifestDocs'[d].file \notin {manifestDocs[e].file : e \in DOMAIN manifestDocs}
         /\ manifestDocs'[d].file \in DOMAIN files'
         /\ files'[manifestDocs'[d].file] = ServerMarkdown(d)
         /\ \A p \in DOMAIN files \ {manifestDocs'[d].file} : p \in DOMAIN files' /\ files'[p] = files[p]
         /\ manifestDocs'[d].hash = sha256(files'[manifestDocs'[d].file])
         /\ manifestDocs'[d].revisionId = remote[d].revisionId
         /\ remote' = remote
         /\ OnlyCounts("downloaded")]_vars

\* C6 witness: a pass has downloaded a new document under a suffixed name
\* because the plain title-derived name was a local file already.
C6_Witness ==
  \E d \in DOMAIN manifestDocs :
    /\ pc # "idle" /\ counters.downloaded >= 1
    /\ d \notin DOMAIN manifest /\ d \in DOMAIN remoteDocs
    /\ manifestDocs[d].file = TitleBase(d) \o <<"-", "1", ".md">>
    /\ TitleBase(d) \o <<".md">> \in DOMAIN files
    /\ files[manifestDocs[d].file] = ServerMarkdown(d)

\* the server title of d is not the one the entry records, and the
\* revision has advanced
Retitled(d) == remote[d].title # manifestDocs[d].title /\ RevisionDiffers(d)

\* what C7 says of the step, but for the old path
C7_Effects(d) ==
  /\ DOMAIN manifestDocs' = DOMAIN manifestDocs
  /\ manifestDocs'[d].file \in TitleNames(d)
  /\ manifestDocs'[d].file \in DOMAIN files'
  /\ files'[manifestDocs'[d].file] = ServerMarkdown(d)
  /\ \A p \in LocalFiles(files) \ {manifestDocs[d].file, manifestDocs'[d].file} :
       p \in DOMAIN files' /\ files'[p] = files[p]
  /\ manifestDocs'[d].revisionId = remote[d].revisionId
  /\ manifestDocs'[d].title = remote[d].title
  /\ remote' = remote

\* C7 as stated (rename follows title): visiting a paired document that was
\* retitled on the server, its local file unmodified, moves the file to the
\* title-derived name, downloads into it, records the new revision in the
\* same entry, creates no entry, uploads nothing, and leaves no file at the
\* old path.
C7_RetitleLeavesNoOldFile ==
  [][\A d \in DocIds :
       (Visits(d) /\ Paired(d) /\ LocalPresent(d) /\ ~LocalHashDiffers(d) /\ Retitled(d)) =>
         /\ C7_Effects(d)
         /\ manifestDocs[d].file \notin DOMAIN files']_vars

\* C7 amended: the same, and no file is left at the old path whenever the
\* new title-derived name differs from the entry's old file; when the new
\* title gives the name the file already has, the file stays where it is.
C7_RetitleRenames ==
  [][\A d \in DocIds :
       (Visits(d) /\ Paired(d) /\ LocalPresent(d) /\ ~LocalHashDiffers(d) /\ Retitled(d)) =>
         /\ C7_Effects(d)
         /\ manifestDocs'[d].file # manifestDocs[d].file => manifestDocs[d].file \notin DOMAIN files']_vars

\* C7 witness: a pass has moved the file of a retitled document to the new
\* title's name and downloaded the new revision into it.
C7_Witness ==
  \E d \in DOMAIN manifestDocs :
    /\ pc # "idle" /\ d \in DOMAIN manifest /\ d \in DOMAIN remote /\ d \notin todo
    /\ manifestDocs[d].title # manifest[d].title
    /\ manifestDocs[d].revisionId # manifest[d].revisionId
    /\ manifestDocs[d].file # manifest[d].file
    /\ manifest[d].file \notin DOMAIN files
    /\ manifestDocs[d].file \in DOMAIN files
    /\ files[manifestDocs[d].file] = ServerMarkdown(d)
    /\ counters.downloaded = 1

\* C8 (only remote changed): visiting a paired document whose local hash
\* equals the manifest hash and whose server revision differs writes the
\* server content over the paired file and records the server revision, the
\* server title and the hash of the written content; and whenever a pass
\* step changes the bytes of an existing local file, that file is the paired
\* file of the visited document and the document is in this case or had no
\* entry.
C8_RemoteChangeDownloads ==
  [][/\ \A d \in DocIds :
          (Visits(d) /\ Paired(d) /\ LocalPresent(d) /\ ~LocalHashDiffers(d) /\ RevisionDiffers(d)) =>
            /\ d \in DOMAIN manifestDocs'
            /\ manifestDocs'[d].file \in DOMAIN files'
            /\ files'[manifestDocs'[d].file] = ServerMarkdown(d)
            /\ manifestDocs'[d].revisionId = remote[d].revisionId
            /\ manifestDocs'[d].title = remote[d].title
            /\ manifestDocs'[d].hash = sha256(files'[manifestDocs'[d].file])
     /\ \A d \in DocIds :
          (Visits(d) /\ Paired(d) /\ LocalPresent(d) /\ d \in DOMAIN manifestDocs'
             /\ manifestDocs'[d].file \in DOMAIN files'
             /\ files'[manifestDocs'[d].file] # LocalBytes(d)) =>
            (~LocalHashDiffers(d) /\ RevisionDiffers(d))
     /\ \A p \in LocalFiles(files) :
          (pc # "idle" /\ p \in DOMAIN files' /\ files'[p] # files[p]) =>
            \E d \in DocIds :
              /\ Visits(d)
              /\ d \in DOMAIN manifestDocs' /\ manifestDocs'[d].file = p
              /\ \/ ~Paired(d)
                 \/ LocalPresent(d) /\ ~LocalHashDiffers(d) /\ RevisionDiffers(d)]_vars

\* C8 witness: a pass has replaced the bytes of an unmodified paired file by
\* the newer server content and recorded revision and hash.
C8_Witness ==
  \E d \in DOMAIN manifestDocs :
    /\ pc # "idle" /\ d \in DOMAIN manifest /\ d \in DOMAIN remote /\ d \notin todo
    /\ manifestDocs[d].file = manifest[d].file
    /\ manifestDocs[d].revisionId = remote[d].revisionId
    /\ manifestDocs[d].revisionId # manifest[d].revisionId
    /\ manifestDocs[d].hash # manifest[d].hash
    /\ files[manifestDocs[d].file] = ServerMarkdown(d)
    /\ manifestDocs[d].hash = sha256(files[manifestDocs[d].file])

\* C9 (only local changed): visiting a paired document whose local hash
\* differs from the manifest hash and whose server revision equals the
\* manifest revision puts the local file's blocks on the server, keeps the
\* local bytes, and records the revision the server has after the upload
\* with the local file's hash, so that entry, file and server agree.
C9_LocalChangeUploads ==
  [][\A d \in DocIds :
       (Visits(d) /\ Paired(d) /\ LocalPresent(d) /\ LocalHashDiffers(d) /\ ~RevisionDiffers(d)) =>
         /\ d \in DOMAIN remote' /\ d \in DOMAIN manifestDocs'
         /\ remote'[d].blocks = LocalBytes(d).blocks
         /\ remote'[d].revisionId # remote[d].revisionId
         /\ SameBytesUpToRename(files, files', manifestDocs[d].file, manifestDocs'[d].file)
         /\ manifestDocs'[d].revisionId = remote'[d].revisionId
         /\ manifestDocs'[d].hash = sha256(LocalBytes(d))
         /\ manifestDocs'[d].hash = sha256(files'[manifestDocs'[d].file])
         /\ OnlyCounts("uploaded")]_vars

\* C9 witness: a pass has uploaded an edited local file: the server holds
\* its blocks at a revision later than the one in the manifest file, and the
\* entry records that revision and the file's hash.
C9_Witness ==
  \E d \in DOMAIN manifestDocs :
    /\ pc # "idle" /\ d \in DOMAIN manifest /\ d \in DOMAIN remote /\ d \notin todo
    /\ counters.uploaded = 1
    /\ manifestDocs[d].hash # manifest[d].hash
    /\ manifestDocs[d].hash = sha256(files[manifestDocs[d].file])
    /\ remote[d].blocks = files[manifestDocs[d].file].blocks
    /\ manifestDocs[d].revisionId = remote[d].revisionId
    /\ manifest[d].revisionId # remote[d].revisionId

\* C10 (P3, skipped): visiting a paired document whose local hash equals the
\* manifest hash and whose server revision equals the manifest revision adds
\* one to skipped only, changes the bytes of no local file (the paired file
\* may move to a new name), writes nothing to the remote side and keeps the
\* entry's hash.
C10_UnchangedIsSkipped ==
  [][\A d \in DocIds :
       (Visits(d) /\ Paired(d) /\ LocalPresent(d) /\ ~LocalHashDiffers(d) /\ ~RevisionDiffers(d)) =>
         /\ OnlyCounts("skipped")
         /\ d \in DOMAIN manifestDocs'
         /\ SameBytesUpToRename(files, files', manifestDocs[d].file, manifestDocs'[d].file)
         /\ remote' = remote
         /\ manifestDocs'[d].hash = manifestDocs[d].hash]_vars

\* C10 witness: a pass has skipped a document that is unchanged on both
\* sides.
C10_Witness ==
  \E d \in DOMAIN manifestDocs :
    /\ pc # "idle" /\ d \in DOMAIN manifest /\ d \in DOMAIN remote /\ d \notin todo
    /\ counters.skipped = 1
    /\ manifestDocs[d].hash = manifest[d].hash
    /\ manifestDocs[d].revisionId = manifest[d].revisionId
    /\ manifestDocs[d].revisionId = remote[d].revisionId
    /\ manifestDocs[d].hash = sha256(files[manifestDocs[d].file])

\* the unpaired-local loop creates a document in this step
Creates == pc = "create" /\ created' # created
EntriesFor(docs, p) == {d \in DOMAIN docs : docs[d].file = p}

\* C11 (unpaired local files): a step of the unpaired-local loop takes a
\* local file that is the file of no manifest entry, creates exactly one new
\* document in the wiki space from its content and adds exactly one manifest
\* entry, with fileType "docx", the file's hash and the file as `file`; a
\* pass creates documents in no other way, and when it comes to write the
\* manifest every local file is the file of exactly one entry.
C11_UnpairedLocalCreatesDocument ==
  [][ /\ Creates =>
           \E p \in DOMAIN files : \E d \in DocIds \ (DOMAIN remote \cup DOMAIN manifestDocs) :
             /\ Listed(p)
             /\ EntriesFor(manifestDocs, p) = {}
             /\ DOMAIN remote' = DOMAIN remote \cup {d}
             /\ \A e \in DOMAIN remote : remote'[e] = remote[e]
             /\ remote'[d].title = markdownToBlocks(files[p]).title
             /\ remote'[d].blocks \in {markdownToBlocks(files[p]).blocks,
                                      <<"h1">> \o markdownToBlocks(files[p]).blocks}
             /\ DOMAIN manifestDocs' = DOMAIN manifestDocs \cup {d}
             /\ \A e \in DOMAIN manifestDocs : manifestDocs'[e] = manifestDocs[e]
             /\ manifestDocs'[d].file = p
             /\ manifestDocs'[d].fileType = "docx"
             /\ manifestDocs'[d].hash = sha256(files[p])
             /\ manifestDocs'[d].revisionId = remote'[d].revisionId
             /\ files' = files
             /\ OnlyCounts("uploaded")
      /\ (pc # "idle" /\ ~(DOMAIN remote' \subseteq DOMAIN remote)) => Creates
      /\ (pc # "write" /\ pc' = "write") =>
           \A p \in DOMAIN files' :
             Listed(p) => Cardinality(EntriesFor(manifestDocs', p)) = 1
    ]_vars

\* a pass has created a document from an unpaired local file and is about
\* to write the manifest that pairs them
C11_Witness ==
  /\ pc = "write"
  /\ counters.uploaded >= 1
  /\ \E d \in DOMAIN manifestDocs \ DOMAIN remoteDocs :
       /\ d \in DOMAIN remote
       /\ manifestDocs[d].fileType = "docx"
       /\ manifestDocs[d].file \in DOMAIN files
       /\ manifestDocs[d].hash = sha256(files[manifestDocs[d].file])

\* a pass is running
Running == pc \notin Resting
\* the pass ends in this step, successfully / in failure
Completes == Running /\ pc' = "idle"
Fails == Running /\ pc' = "failed"

\* C12 (manifest written last): the manifest file changes only in the step
\* that completes a pass, which is the write of the pass's in-memory
\* manifest and the only write of the pass; every other step of a pass,
\* and the step in which a pass fails, leaves the manifest file as the pass
\* read it at its start.
C12_ManifestWrittenLast ==
  [][ /\ manifest' # manifest => Completes /\ pc = "write"
      /\ Completes => pc = "write" /\ manifest' = manifestDocs
      /\ Fails => manifest' = manifest
      /\ (Running /\ pc # "write") => manifest' = manifest
      /\ (~Running /\ pc' \notin Resting) => manifestDocs' = manifest /\ manifest' = manifest
    ]_vars

\* a pass failed after downloading a document: the file is on disk, the
\* manifest file is still the empty one the pass read
C12_Witness ==
  /\ pc = "failed"
  /\ counters.downloaded >= 1
  /\ manifest = Empty
  /\ \E p \in DOMAIN files : \E d \in DOMAIN remote : files[p] = ServerMarkdown(d)

\* ---------------------------------------------- the manifest file's bytes
\* entries a manifest of the byte-level model may hold
MaxEntries == 2
ManifestDocs == SUBSET {DocName[i] : i \in 1..MaxEntries}

\* JSON.stringify of a manifest, one token per entry between the braces
stringify(docs) == <<"{">> \o SelectSeq(DocName, LAMBDA d : d \in docs) \o <<"}">>
\* JSON.parse succeeds on a complete object only
Parses(text) == Len(text) >= 2 /\ text[1] = "{" /\ Last(text) = "}"
\* readManifest: the docs of the parsed file, and empty docs when reading
\* or parsing throws
readManifest(text) ==
  IF Parses(text) THEN {text[i] : i \in 2..(Len(text) - 1)} ELSE {}

InitWrite ==
  /\ InitReconciler
  /\ NoApi
  /\ NoSubscriptions
  /\ NoProcessor
  /\ NoOrchestrator
  /\ NoTools
  /\ previous \in ManifestDocs
  /\ raw = stringify(previous)
  /\ output \in {stringify(docs) : docs \in ManifestDocs}
  /\ wpc = "start"

\* fs.writeFile opens the manifest path with flag 'w', which truncates it
WriteOpen ==
  /\ wpc = "start"
  /\ raw' = <<>>
  /\ wpc' = "open"
  /\ UNCHANGED <<previous, output>>

\* a write call puts the next part of the text into the file
WriteChunk ==
  /\ wpc = "open"
  /\ Len(raw) < Len(output)
  /\ \E n \in (Len(raw) + 1)..Len(output) : raw' = SubSeq(output, 1, n)
  /\ UNCHANGED <<previous, output, wpc>>

\* everything is written: the file is closed and writeManifest returns
WriteClose ==
  /\ wpc = "open"
  /\ raw = output
  /\ wpc' = "closed"
  /\ UNCHANGED <<raw, previous, output>>

\* the process is killed during the call
Kill ==
  /\ wpc \in {"start", "open"}
  /\ wpc' = "killed"
  /\ UNCHANGED <<raw, previous, output>>

NextWrite ==
  \/ WriteOpen /\ UNCHANGED <<reconciler, api, subscriptions, processor, orchestrator, tools>>
  \/ WriteChunk /\ UNCHANGED <<reconciler, api, subscriptions, processor, orchestrator, tools>>
  \/ WriteClose /\ UNCHANGED <<reconciler, api, subscriptions, processor, orchestrator, tools>>
  \/ Kill /\ UNCHANGED <<reconciler, api, subscriptions, processor, orchestrator, tools>>

SpecWrite == InitWrite /\ [][NextWrite]_vars

\* C13 (P6, manifest durability): whenever the manifest file is read, also
\* after the process was killed during a write, it is complete JSON and
\* readManifest gives the docs the file held before the write or the docs
\* being written.
C13_ManifestDurable ==
  /\ Parses(raw)
  /\ readManifest(raw) \in {previous, readManifest(output)}

\* ------------------------------------------------- apiRequest and apiPost
maxRetries == 5

\* what response.headers.get('retry-after') can give: null when the header
\* is absent, delay-seconds, or an HTTP date
RetryAfterHeaders == {"null", "1", "3", "Wed, 21 Oct 2026 07:28:00 GMT"}
\* what response.text() can give: nothing, text that is not JSON, JSON with
\* a non-zero code, JSON with code 0
Texts == {"", "<html>", "code 1", "code 0"}

\* what one fetch can give: a rejection, a 429, or another response
FetchResults ==
  {[rejects |-> TRUE, status |-> 0, retryAfter |-> "null", text |-> ""]}
  \cup {[rejects |-> FALSE, status |-> 429, retryAfter |-> h, text |-> ""] :
          h \in RetryAfterHeaders}
  \cup {[rejects |-> FALSE, status |-> 200, retryAfter |-> "null", text |-> t] :
          t \in Texts}

\* JavaScript's Number(): null is 0, a numeric string is its number, any
\* other string is NaN
Number(v) ==
  CASE v = "null" -> [finite |-> TRUE, value |-> 0]
    [] v = "1" -> [finite |-> TRUE, value |-> 1]
    [] v = "3" -> [finite |-> TRUE, value |-> 3]
    [] OTHER -> [finite |-> FALSE, value |-> 0]

Min(a, b) == IF a <= b THEN a ELSE b

\* the delay slept after a 429 on attempt a
delayMs(r, a) ==
  LET retryAfter == Number(r.retryAfter)
  IN  IF retryAfter.finite THEN retryAfter.value * 1000
      ELSE Min(8000, 1000 * 2 ^ a)

\* mutant: the loop makes one more attempt
mayAttempt_OneMore(a) == a <= maxRetries + 1

\* the condition of the for loop
mayAttempt(a) == a <= maxRetries

\* mutant: a rejected fetch goes on to the next attempt
iteration_RetriesRejection(r, a) ==
  IF r.rejects \/ r.status = 429
    THEN IF mayAttempt(a + 1) THEN "running" ELSE "rateLimited"
    ELSE CASE r.text = "" -> "empty"
           [] r.text = "<html>" -> "notJson"
           [] r.text = "code 1" -> "apiError"
           [] OTHER -> "returned"

\* how one iteration of the loop ends: with an error thrown, with the data
\* returned, or (after a 429) with the next iteration or the error after
\* the loop
iteration(r, a) ==
  IF r.rejects THEN "fetchFailed"
  ELSE IF r.status = 429
    THEN IF mayAttempt(a + 1) THEN "running" ELSE "rateLimited"
    ELSE CASE r.text = "" -> "empty"
           [] r.text = "<html>" -> "notJson"
           [] r.text = "code 1" -> "apiError"
           [] OTHER -> "returned"

InitApi ==
  /\ InitReconciler
  /\ NoWriter
  /\ NoSubscriptions
  /\ NoProcessor
  /\ NoOrchestrator
  /\ NoTools
  /\ attempt = 0
  /\ response = NoResponse
  /\ requests = 0
  /\ waits = <<>>
  /\ outcome = "running"

\* one iteration of the loop: the fetch, and what follows it
Attempt ==
  /\ outcome = "running"
  /\ mayAttempt(attempt)
  /\ \E r \in FetchResults :
       /\ response' = r
       /\ requests' = requests + 1
       /\ outcome' = iteration(r, attempt)
       /\ attempt' = IF iteration(r, attempt) = "running" THEN attempt + 1 ELSE attempt
       /\ waits' = IF ~r.rejects /\ r.status = 429
                     THEN Append(waits, delayMs(r, attempt)) ELSE waits

NextApi ==
  \/ Attempt /\ UNCHANGED <<reconciler, writer, subscriptions, processor, orchestrator, tools>>

SpecApi == InitApi /\ [][NextApi]_vars

\* the call sends a request in this step
Sends == requests' = requests + 1
Got429(r) == ~r.rejects /\ r.status = 429

\* C17 (retry bound): one API call sends at most 6 requests; a request
\* after the first is sent only when the one before was answered with 429;
\* the sixth 429 makes the call fail with the rate-limit error, which is
\* thrown in no other case.
C17_AtMostSixRequests ==
  [][ /\ requests' <= 6
      /\ (Sends /\ requests >= 1) => Got429(response)
      /\ (Sends /\ requests' = 6 /\ Got429(response')) => outcome' = "rateLimited"
      /\ outcome' = "rateLimited" => requests' = 6 /\ Len(waits') = 6
      /\ (Sends /\ requests' < 6 /\ Got429(response')) => outcome' = "running"
    ]_vars

\* the call has failed with the rate-limit error after six requests
C17_Witness == outcome = "rateLimited" /\ requests = 6 /\ Got429(response)

\* the Retry-After header as delay-seconds, where it is that
DelaySeconds(h) == CASE h = "1" -> 1 [] h = "3" -> 3 [] OTHER -> 0
\* the call sleeps in this step
Sleeps == Len(waits') = Len(waits) + 1

\* C18 (retry delay): the wait after a 429 on attempt k is the Retry-After
\* header's seconds when the response has that header, and
\* min(8 s, 1 s * 2^k) when it has none.
C18_DelayAfter429 ==
  [][ Sleeps =>
        /\ response'.retryAfter \in {"1", "3"} =>
              Last(waits') = 1000 * DelaySeconds(response'.retryAfter)
        /\ response'.retryAfter = "null" =>
              Last(waits') = Min(8000, 1000 * 2 ^ attempt)
    ]_vars

\* C19 (network error), as claimed: a rejected fetch is retried like a 429,
\* so the call does not fail on a rejection before its sixth request.
C19_NetworkErrorRetried ==
  [][ (Sends /\ response'.rejects /\ requests' < 6) => outcome' = "running" ]_vars

\* C19, amended: a rejected fetch makes the call fail at once with the
\* "Fetch failed" error, whatever the attempt; no request follows it, and
\* the call fails in this way in no other case.
C19_NetworkErrorFailsAtOnce ==
  [][ /\ (Sends /\ response'.rejects) => outcome' = "fetchFailed"
      /\ outcome' = "fetchFailed" => response'.rejects
      /\ Sends => ~response.rejects /\ outcome = "running"
    ]_vars

\* the call failed on a rejected fetch after a 429 had been retried
C19_Witness ==
  outcome = "fetchFailed" /\ response.rejects /\ requests \in 2..5 /\ Len(waits) = requests - 1

\* ---------------------------------------- the orchestrator's subscriptions
\* documents of the subscription model
MaxSubDocs == 2
SubDocs == {DocName[i] : i \in 1..MaxSubDocs}

InitSub ==
  /\ InitReconciler
  /\ NoWriter
  /\ NoApi
  /\ NoProcessor
  /\ NoOrchestrator
  /\ NoTools
  /\ subscribedDocs = {}
  /\ inflight = [c \in Callers |-> "none"]
  /\ invocations = [d \in SubDocs |-> 0]
  /\ started = FALSE

\* main awaits the startup scan before it starts the poller, the watcher
\* and the WebSocket client
MayCall(c) == IF c = "startup" THEN ~started ELSE started

\* subscribeToDocument up to its await: nothing happens for a document the
\* Set holds, otherwise the subscribe request is sent
SubscribeCall(c, d) ==
  /\ MayCall(c)
  /\ inflight[c] = "none"
  /\ d \notin subscribedDocs
  /\ inflight' = [inflight EXCEPT ![c] = d]
  /\ UNCHANGED <<subscribedDocs, invocations, started>>

\* the request succeeds and the call resumes: subscribedDocs.add(docId)
SubscribeResolves(c) ==
  /\ inflight[c] # "none"
  /\ invocations' = [invocations EXCEPT ![inflight[c]] = @ + 1]
  /\ subscribedDocs' = subscribedDocs \cup {inflight[c]}
  /\ inflight' = [inflight EXCEPT ![c] = "none"]
  /\ UNCHANGED started

\* the request fails: the catch logs a warning
SubscribeRejects(c) ==
  /\ inflight[c] # "none"
  /\ inflight' = [inflight EXCEPT ![c] = "none"]
  /\ UNCHANGED <<subscribedDocs, invocations, started>>

\* the startup scan is over: main goes on to startPolling and the rest
StartupDone ==
  /\ ~started
  /\ inflight["startup"] = "none"
  /\ started' = TRUE
  /\ UNCHANGED <<subscribedDocs, inflight, invocations>>

NextSub ==
  \/ \E c \in Callers : \E d \in SubDocs :
       SubscribeCall(c, d) /\ UNCHANGED <<reconciler, writer, api, processor, orchestrator, tools>>
  \/ \E c \in Callers : SubscribeResolves(c) /\ UNCHANGED <<reconciler, writer, api, processor, orchestrator, tools>>
  \/ \E c \in Callers : SubscribeRejects(c) /\ UNCHANGED <<reconciler, writer, api, processor, orchestrator, tools>>
  \/ StartupDone /\ UNCHANGED <<reconciler, writer, api, processor, orchestrator, tools>>

SpecSub == InitSub /\ [][NextSub]_vars

\* C20 (subscribe once): no document's subscribe endpoint is called
\* successfully more than once.
C20_SubscribedAtMostOnce == \A d \in DOMAIN invocations : invocations[d] <= 1

\* ------------------------- the change processor and the local watcher
debounceMs == 3000
dedupeWindowMs == 600000
localIgnoreWindowMs == 2000

\* stimuli (remote events, user edits, polls and the poller's downloads)
\* and seconds of the change processor's model
MaxStimuli == 2
MaxTicks == 6
\* the documents the events are about
ProcDocs == {DocName[1], DocName[2]}
\* the orchestrator has been up for a while when the model begins
StartTime == dedupeWindowMs

InitProc ==
  /\ InitReconciler
  /\ NoWriter
  /\ NoApi
  /\ NoSubscriptions
  /\ NoOrchestrator
  /\ NoTools
  /\ now = StartTime
  /\ docState = Empty
  /\ pending = Empty
  /\ inFlight = {}
  /\ processing = FALSE
  /\ lastProcessCompletedAt = 0
  /\ ignoreLocalChanges = FALSE
  /\ notices = {}
  /\ stimuli = 0
  /\ serverRevision = [d \in ProcDocs |-> 1]
  /\ manifestRevision = [d \in ProcDocs |-> 1]
  /\ events = <<>>
  /\ runs = <<>>

Abs(x) == IF x < 0 THEN 0 - x ELSE x

\* mutant: no event is taken for a duplicate
isDuplicate_Never(d, action) == FALSE

\* an identical (documentId, action) arrived within dedupeWindowMs
isDuplicate(d, action) ==
  /\ d \in DOMAIN docState
  /\ docState[d].lastAction = action
  /\ now - docState[d].lastEventAt < dedupeWindowMs

\* the per-document state after an event that is not dropped: the action
\* is noted and the debounce timer is (re)armed
armed(d, action, by) ==
  Put(docState, d, [lastEventAt |-> now, lastAction |-> action, armed |-> TRUE,
                    dueAt |-> now + debounceMs, seq |-> Len(events) + 1, by |-> by])

\* the log entry of an event
Logged(d, action, by, accepted) ==
  [doc |-> d, action |-> action, at |-> now, by |-> by, accepted |-> accepted]

\* handleEvent for an edit (or title) event of document d, which the
\* server sends when the document has changed
RemoteEditEvent(d) ==
  /\ stimuli < MaxStimuli
  /\ stimuli' = stimuli + 1
  /\ serverRevision' = [serverRevision EXCEPT ![d] = @ + 1]
  /\ docState' = IF isDuplicate(d, "refresh") THEN docState ELSE armed(d, "refresh", "remote")
  /\ events' = Append(events, Logged(d, "refresh", "remote", ~isDuplicate(d, "refresh")))
  /\ UNCHANGED <<now, pending, inFlight, processing, lastProcessCompletedAt,
                 ignoreLocalChanges, notices, manifestRevision, runs>>

\* the user saves the file of document d
UserEdit(d) ==
  /\ stimuli < MaxStimuli
  /\ stimuli' = stimuli + 1
  /\ notices' = notices \cup {[doc |-> d, mtime |-> now, by |-> "user"]}
  /\ UNCHANGED <<now, docState, pending, inFlight, processing, lastProcessCompletedAt,
                 ignoreLocalChanges, serverRevision, manifestRevision, events, runs>>

\* the file's last-modified time is within localIgnoreWindowMs of
\* lastProcessCompletedAt
withinIgnoreWindow(mtime) == Abs(mtime - lastProcessCompletedAt) <= localIgnoreWindowMs

\* mutant: only the flags are consulted
dropsLocal_NoWindow(n) == ignoreLocalChanges \/ processing

\* echo suppression: shouldIgnoreLocal(), isProcessing() and the window
\* around getLastProcessCompletedAt()
dropsLocal(n) == ignoreLocalChanges \/ processing \/ withinIgnoreWindow(n.mtime)

\* the watcher reports a change: handleLocalChange
HandleLocal(n) ==
  /\ n \in notices
  /\ notices' = notices \ {n}
  /\ \E accepted \in {~dropsLocal(n) /\ ~isDuplicate(n.doc, "upload")} :
       /\ docState' = IF accepted THEN armed(n.doc, "upload", n.by) ELSE docState
       /\ events' = Append(events, Logged(n.doc, "upload", n.by, accepted))
  /\ UNCHANGED <<now, pending, inFlight, processing, lastProcessCompletedAt,
                 ignoreLocalChanges, stimuli, serverRevision, manifestRevision, runs>>

\* the debounce timer of document d fires: its action is due
TimerFires(d) ==
  /\ d \in DOMAIN docState
  /\ docState[d].armed
  /\ docState[d].dueAt = now
  /\ docState' = [docState EXCEPT ![d].armed = FALSE]
  /\ pending' = Put(pending, d, [action |-> docState[d].lastAction,
                                  seq |-> docState[d].seq, by |-> docState[d].by])
  /\ UNCHANGED <<now, inFlight, processing, lastProcessCompletedAt, ignoreLocalChanges,
                 notices, stimuli, serverRevision, manifestRevision, events, runs>>

\* mutant: an action starts whether or not another one is running
mayStart_Always == TRUE

\* processPending returns at once while an action is running
mayStart == ~processing

\* processPending takes a due action and starts it: a refresh fetches the
\* document's metadata and blocks, an upload reads the file
StartAction(d) ==
  /\ d \in DOMAIN pending
  /\ mayStart
  /\ processing' = TRUE
  /\ inFlight' = inFlight \cup
       {[doc |-> d, action |-> pending[d].action, seq |-> pending[d].seq,
         by |-> pending[d].by, revision |-> serverRevision[d], wrote |-> FALSE]}
  /\ pending' = Drop(pending, d)
  /\ runs' = Append(runs, [doc |-> d, action |-> pending[d].action, seq |-> pending[d].seq,
                            by |-> pending[d].by, startedAt |-> now])
  /\ UNCHANGED <<now, docState, lastProcessCompletedAt, ignoreLocalChanges, notices,
                 stimuli, serverRevision, manifestRevision, events>>

\* a refresh whose Markdown differs from the manifest's hash writes the file
RefreshWrites(a) ==
  /\ a \in inFlight
  /\ a.action = "refresh"
  /\ ~a.wrote
  /\ inFlight' = (inFlight \ {a}) \cup {[a EXCEPT !.wrote = TRUE]}
  /\ notices' = notices \cup {[doc |-> a.doc, mtime |-> now, by |-> "engine"]}
  /\ UNCHANGED <<now, docState, pending, processing, lastProcessCompletedAt,
                 ignoreLocalChanges, stimuli, serverRevision, manifestRevision, events, runs>>

\* the action is done: a refresh records the revision it fetched, an
\* upload has replaced the document's content and records the new revision
CompleteAction(a) ==
  /\ a \in inFlight
  /\ inFlight' = inFlight \ {a}
  /\ processing' = FALSE
  /\ lastProcessCompletedAt' = now
  /\ serverRevision' = IF a.action = "upload"
                          THEN [serverRevision EXCEPT ![a.doc] = @ + 1] ELSE serverRevision
  /\ manifestRevision' = [manifestRevision EXCEPT ![a.doc] =
                            IF a.action = "upload" THEN serverRevision[a.doc] + 1 ELSE a.revision]
  /\ UNCHANGED <<now, docState, pending, ignoreLocalChanges, notices, stimuli, events, runs>>

\* pollForNewDocs begins: ignoreLocalChanges = true
PollStart ==
  /\ stimuli < MaxStimuli
  /\ stimuli' = stimuli + 1
  /\ ~ignoreLocalChanges
  /\ ignoreLocalChanges' = TRUE
  /\ UNCHANGED <<now, docState, pending, inFlight, processing, lastProcessCompletedAt,
                 notices, serverRevision, manifestRevision, events, runs>>

\* syncNewDocsFromWiki downloads a document the manifest did not hold
PollDownloads(d) ==
  /\ ignoreLocalChanges
  /\ stimuli < MaxStimuli
  /\ stimuli' = stimuli + 1
  /\ notices' = notices \cup {[doc |-> d, mtime |-> now, by |-> "engine"]}
  /\ UNCHANGED <<now, docState, pending, inFlight, processing, lastProcessCompletedAt,
                 ignoreLocalChanges, serverRevision, manifestRevision, events, runs>>

\* pollForNewDocs ends: finally ignoreLocalChanges = false; the watcher has
\* reported the downloads by the time the poll's remaining requests are done
PollEnd ==
  /\ ignoreLocalChanges
  /\ \A n \in notices : n.by # "engine"
  /\ ignoreLocalChanges' = FALSE
  /\ UNCHANGED <<now, docState, pending, inFlight, processing, lastProcessCompletedAt,
                 notices, stimuli, serverRevision, manifestRevision, events, runs>>

\* a second passes; before that the timers that are due have fired, the
\* processor has started what it can start and the watcher has reported
\* the changes made
Tick ==
  /\ now < StartTime + MaxTicks * 1000
  /\ \A d \in DOMAIN docState : ~(docState[d].armed /\ docState[d].dueAt = now)
  /\ ~(pending # Empty /\ mayStart)
  /\ notices = {}
  /\ now' = now + 1000
  /\ UNCHANGED <<docState, pending, inFlight, processing, lastProcessCompletedAt,
                 ignoreLocalChanges, notices, stimuli, serverRevision, manifestRevision,
                 events, runs>>

rest == <<reconciler, writer, api, subscriptions, orchestrator, tools>>

NextProc ==
  \/ \E d \in ProcDocs : RemoteEditEvent(d) /\ UNCHANGED rest
  \/ \E d \in ProcDocs : UserEdit(d) /\ UNCHANGED rest
  \/ \E n \in notices : HandleLocal(n) /\ UNCHANGED rest
  \/ \E d \in ProcDocs : TimerFires(d) /\ UNCHANGED rest
  \/ \E d \in ProcDocs : StartAction(d) /\ UNCHANGED rest
  \/ \E a \in inFlight : RefreshWrites(a) /\ UNCHANGED rest
  \/ \E a \in inFlight : CompleteAction(a) /\ UNCHANGED rest
  \/ PollStart /\ UNCHANGED rest
  \/ \E d \in ProcDocs : PollDownloads(d) /\ UNCHANGED rest
  \/ PollEnd /\ UNCHANGED rest
  \/ Tick /\ UNCHANGED rest

SpecProc == InitProc /\ [][NextProc]_vars

\* the actions of document d that are being executed
Executing(d) == {a \in inFlight : a.doc = d}

\* C14 (P5, at most one): at no time are two actions of one document being
\* executed, and the actions of one document are started in the order in
\* which their events arrived.
C14_OneActionPerDocument ==
  /\ \A d \in ProcDocs : Cardinality(Executing(d)) <= 1
  /\ \A i, j \in 1..Len(runs) :
       (i < j /\ runs[i].doc = runs[j].doc) => runs[i].seq < runs[j].seq

\* an upload and a refresh of one document have been started one after
\* the other, the second while or after the first was executed
C14_Witness ==
  /\ Len(runs) = 2
  /\ runs[1].doc = runs[2].doc
  /\ runs[1].action # runs[2].action
  /\ inFlight # {}

\* all that has happened is a burst of edit events for document d: two or
\* more events, less than debounceMs from the first to the last
Burst(d) ==
  /\ Len(events) >= 2
  /\ stimuli = Len(events)
  /\ \A i \in 1..Len(events) : events[i].doc = d /\ events[i].by = "remote"
  /\ events[Len(events)].at - events[1].at < debounceMs
RefreshesOf(d) == {i \in 1..Len(runs) : runs[i].doc = d /\ runs[i].action = "refresh"}
\* debounceMs have passed since the event at time t
Over(t) == now > t + debounceMs
\* the burst's refresh has been executed
Refreshed(d) == RefreshesOf(d) # {} /\ inFlight = {}

Reports(n) == n \in notices /\ notices' = notices \ {n}

MaxCallbacks == 3

\* config.json, as far as main looks at it.  A value is written as JSON
\* writes it, a string in apostrophes; "missing" is a key the file lacks.
\* wikiSpaceId "7493" is the id written as a number.  Wrong types of
\* tokenPath and sync.folderPath are left out: what happens to them is
\* decided in resolvePath and resolveSyncFolder.
Configs ==
  [tokenPath : {"missing", "'token.txt'"},
   wikiSpaceId : {"missing", "'7493'", "7493"},
   folderPath : {"missing", "'~/notes'"},
   pollIntervalSeconds : {"missing", "false", "0", "'0'", "3", "'abc'"},
   initialSync : {"missing", "true", "false", "'yes'"}]

\* each of these is TRUE when the call returns and FALSE when it throws
requireConfigValue(v) == v # "missing"
requireBoolean(v) == requireConfigValue(v) /\ v \in {"true", "false"}
requirePositiveNumber(v) ==
  requireConfigValue(v) /\ Number(v).finite /\ Number(v).value > 0
pollDisabled(v) == v \in {"false", "0", "'0'"}

\* the processor's variables main's model leaves alone
quietProcessor == <<now, docState, pending, inFlight, lastProcessCompletedAt, notices,
                    stimuli, serverRevision, manifestRevision, events, runs>>
\* everything main's model leaves alone
aside == <<reconciler, writer, api, subscriptions, quietProcessor, tools>>

InitMain ==
  /\ InitReconciler
  /\ NoWriter
  /\ NoApi
  /\ NoSubscriptions
  /\ NoProcessor
  /\ NoTools
  /\ config \in Configs
  /\ tokenFile \in {"missing", "empty", "ok"}
  /\ mainpc = "config"
  /\ trace = <<>>
  /\ running = FALSE
  /\ polls = 0
  /\ child = "none"
  /\ reading = {}
  /\ revision = 0
  /\ writes = {}
  /\ callbacks = 0

\* main from readConfig to requireBoolean(config, 'sync.initialSync'): any
\* throw ends in main().catch, which exits with code 1
LoadConfig ==
  /\ mainpc = "config"
  /\ \E accepted \in
         {/\ requireConfigValue(config.tokenPath)
          /\ requireConfigValue(config.wikiSpaceId)
          /\ requireConfigValue(config.folderPath)
          /\ tokenFile = "ok"
          /\ requireConfigValue(config.pollIntervalSeconds)
          /\ (pollDisabled(config.pollIntervalSeconds)
                \/ requirePositiveNumber(config.pollIntervalSeconds))
          /\ requireBoolean(config.initialSync)} :
       /\ mainpc' = IF accepted THEN "initialSync" ELSE "exit1"
       /\ trace' = IF accepted THEN Append(trace, "config") ELSE trace
  /\ UNCHANGED <<config, tokenFile, running, polls, child, reading, revision, writes,
                 callbacks, ignoreLocalChanges, processing>>

\* mutant: main does not wait for the startup full sync
afterSpawn_NoAwait == "subscribe"

\* await runFullSync('startup'): main goes on when the call returns
afterSpawn == "initialWait"

\* if (initialSync) await runFullSync('startup'): the child is spawned; it
\* reads the manifest when it starts
InitialSync ==
  /\ mainpc = "initialSync"
  /\ IF config.initialSync = "true"
       THEN /\ mainpc' = afterSpawn
            /\ child' = "startup"
            /\ reading' = reading \cup {[who |-> "fullSync", read |-> revision]}
            /\ trace' = Append(trace, "fullSyncStart")
       ELSE /\ mainpc' = "subscribe"
            /\ UNCHANGED <<child, reading, trace>>
  /\ UNCHANGED <<config, tokenFile, running, polls, revision, writes, callbacks,
                 ignoreLocalChanges, processing>>

watcherActive == \E i \in 1..Len(trace) : trace[i] = "watcher"

\* an engine-driven write of a local file, as the log keeps it
Written(by) == [by |-> by, flag |-> ignoreLocalChanges]

\* runFullSync awaits the 'exit' event of a child that runs
Spawned == {"startup", "fallback"}
\* the child downloads, renames or deletes a local file
ChildWrites ==
  /\ child \in Spawned
  /\ writes' = IF watcherActive THEN writes \cup {Written("fullSync")} ELSE writes
  /\ UNCHANGED <<config, tokenFile, mainpc, trace, running, polls, child, reading, revision,
                 callbacks, ignoreLocalChanges, processing>>

\* who is between its read and its write of the manifest
Readers == {r.who : r \in reading}
Release(who) == {r \in reading : r.who # who}

\* the child exits: with code 0 after it has written the manifest, with
\* code 1 without (1 stands for every result that is not code 0: another
\* code, or code null and a signal).  runFullSync resolves, scans the
\* manifest for subscriptions after code 0, and returns to its caller:
\* main at startup, the change processor's action otherwise
ChildExits(code) ==
  /\ child \in Spawned
  /\ child' = "none"
  /\ reading' = Release("fullSync")
  /\ revision' = IF code = 0 THEN revision + 1 ELSE revision
  /\ IF child = "startup"
       THEN /\ mainpc' = IF mainpc = "initialWait" THEN "subscribe" ELSE mainpc
            /\ trace' = Append(trace, "fullSyncEnd")
                          \o (IF code = 0 THEN <<"subscribe">> ELSE <<>>)
            /\ UNCHANGED processing
       ELSE /\ processing' = FALSE
            /\ trace' = IF code = 0 THEN Append(trace, "rescan") ELSE trace
            /\ UNCHANGED mainpc
  /\ UNCHANGED <<config, tokenFile, running, polls, writes, callbacks, ignoreLocalChanges>>

\* mutant: the 'error' handler resolves the promise as a failed run does
afterError_Resolves(exitFollows) == TRUE

\* child.on('error'): the handler logs and does not resolve; the promise
\* is resolved only if the runtime emits 'exit' after the 'error'
afterError(exitFollows) == exitFollows

\* the child cannot be spawned: the runtime emits 'error', and after it
\* 'exit' or nothing more.  Without an 'exit' runFullSync stays at its
\* await, with no child that could end it
ChildError(exitFollows) ==
  /\ child \in Spawned
  /\ IF afterError(exitFollows)
       THEN ChildExits(1)
       ELSE /\ child' = IF child = "startup" THEN "startupFailed" ELSE "fallbackFailed"
            /\ reading' = Release("fullSync")
            /\ UNCHANGED <<config, tokenFile, mainpc, trace, running, polls, revision, writes,
                           callbacks, ignoreLocalChanges, processing>>

\* await subscribeManifestDocs()
SubscribeManifestDocs ==
  /\ mainpc = "subscribe"
  /\ mainpc' = "sources"
  /\ trace' = Append(trace, "subscribe")
  /\ UNCHANGED <<config, tokenFile, running, polls, child, reading, revision, writes,
                 callbacks, ignoreLocalChanges, processing>>

\* startPolling(); startLocalWatcher(...); dispatcher.register(handlers);
\* wsClient.start: one synchronous run of main
StartSources ==
  /\ mainpc = "sources"
  /\ mainpc' = "up"
  /\ trace' = trace \o <<"poller", "watcher", "handlers">>
  /\ UNCHANGED <<config, tokenFile, running, polls, child, reading, revision, writes,
                 callbacks, ignoreLocalChanges, processing>>

Started(source) == \E i \in 1..Len(trace) : trace[i] = source

\* mutant: the interval's callback does not look at the flag
mayRun_Always == TRUE

\* if (running) return
mayRun == ~running

\* the interval's callback: nothing while a run is in flight, otherwise
\* running = true and pollForNewDocs() up to its await: ignoreLocalChanges
\* = true, and syncNewDocsFromWiki reads the manifest
IntervalFires ==
  /\ Started("poller")
  /\ ~pollDisabled(config.pollIntervalSeconds)
  /\ callbacks < MaxCallbacks
  /\ callbacks' = callbacks + 1
  /\ IF mayRun
       THEN /\ running' = TRUE
            /\ polls' = polls + 1
            /\ ignoreLocalChanges' = TRUE
            /\ reading' = reading \cup {[who |-> "poll", read |-> revision]}
            /\ trace' = Append(trace, "poll")
       ELSE /\ trace' = Append(trace, "skip")
            /\ UNCHANGED <<running, polls, ignoreLocalChanges, reading>>
  /\ UNCHANGED <<config, tokenFile, mainpc, child, revision, writes, processing>>

\* syncNewDocsFromWiki downloads a document the manifest does not hold
PollWrites ==
  /\ polls > 0
  /\ writes' = IF watcherActive THEN writes \cup {Written("poll")} ELSE writes
  /\ UNCHANGED <<config, tokenFile, mainpc, trace, running, polls, child, reading, revision,
                 callbacks, ignoreLocalChanges, processing>>

\* mutant: the flag is cleared only when the run succeeds
flagAfterRun_NoFinally(ok) == IF ok THEN FALSE ELSE ignoreLocalChanges

\* finally { ignoreLocalChanges = false }
flagAfterRun(ok) == FALSE

\* syncNewDocsFromWiki resolves (it has written the manifest) or rejects:
\* pollForNewDocs's finally, then the callback's .catch and .finally
PollSettles(ok) ==
  /\ polls > 0
  /\ polls' = polls - 1
  /\ ignoreLocalChanges' = flagAfterRun(ok)
  /\ running' = FALSE
  /\ reading' = Release("poll")
  /\ revision' = IF ok THEN revision + 1 ELSE revision
  /\ UNCHANGED <<config, tokenFile, mainpc, trace, child, writes, callbacks, processing>>

\* the watcher's callback or a WebSocket handler is called, and the change
\* processor takes up the work unless it is at work: a refresh or an upload
\* reads the manifest, a full-sync request (a trashed document, a document
\* not found) calls runFullSync('fallback')
SourceCalls(source, work) ==
  /\ Started(source)
  /\ callbacks < MaxCallbacks
  /\ callbacks' = callbacks + 1
  /\ trace' = Append(trace, IF source = "watcher" THEN "local" ELSE "event")
  /\ IF processing
       THEN UNCHANGED <<processing, child, reading>>
       ELSE /\ processing' = TRUE
            /\ child' = IF work = "fullSync" THEN "fallback" ELSE child
            /\ reading' = reading \cup
                 {[who |-> IF work = "fullSync" THEN "fullSync" ELSE "action",
                   read |-> revision]}
  /\ UNCHANGED <<config, tokenFile, mainpc, running, polls, revision, writes,
                 ignoreLocalChanges>>

\* the processor's refresh or upload is done: it has written the manifest
ActionCompletes ==
  /\ processing
  /\ "action" \in Readers
  /\ processing' = FALSE
  /\ reading' = Release("action")
  /\ revision' = revision + 1
  /\ UNCHANGED <<config, tokenFile, mainpc, trace, running, polls, child, writes, callbacks,
                 ignoreLocalChanges>>

NextMain ==
  \/ LoadConfig /\ UNCHANGED aside
  \/ InitialSync /\ UNCHANGED aside
  \/ ChildWrites /\ UNCHANGED aside
  \/ \E code \in {0, 1} : ChildExits(code) /\ UNCHANGED aside
  \/ \E exitFollows \in BOOLEAN : ChildError(exitFollows) /\ UNCHANGED aside
  \/ SubscribeManifestDocs /\ UNCHANGED aside
  \/ StartSources /\ UNCHANGED aside
  \/ IntervalFires /\ UNCHANGED aside
  \/ PollWrites /\ UNCHANGED aside
  \/ \E ok \in BOOLEAN : PollSettles(ok) /\ UNCHANGED aside
  \/ \E source \in {"watcher", "handlers"} : \E work \in {"action", "fullSync"} :
       SourceCalls(source, work) /\ UNCHANGED aside
  \/ ActionCompletes /\ UNCHANGED aside

SpecMain == InitMain /\ [][NextMain]_vars

\* an interval tick is handled in this step
Ticks == callbacks' = callbacks + 1 /\ trace'[Len(trace')] \in {"poll", "skip"}

\* C21 (one poll at a time): at most one poll run is in flight; a tick that
\* fires while a run is in flight starts no run; once the run has ended,
\* with or without an error, the flag is down and the next tick starts one.
C21_OnePollInFlight ==
  [][ /\ polls' <= 1
      /\ (Ticks /\ polls > 0) => (polls' = polls /\ trace'[Len(trace')] = "skip")
      /\ (Ticks /\ polls = 0) => (polls' = 1 /\ trace'[Len(trace')] = "poll")
      /\ polls' = 0 => ~running'
    ]_vars

\* a tick was skipped while a run was in flight, a run has failed or
\* succeeded, and a later tick has started another run
C21_Witness ==
  /\ \E i, j, k \in 1..Len(trace) :
       i < j /\ j < k /\ trace[i] = "poll" /\ trace[j] = "skip" /\ trace[k] = "poll"
  /\ polls = 1

\* C22 (the poller's flag): ignoreLocalChanges is true exactly while a poll
\* run is in flight: from the start of the run to its end, whether it
\* succeeded or threw.
C22_FlagIffPolling == ignoreLocalChanges <=> polls > 0

\* a run has ended and the flag is down again while main is up
C22_Witness ==
  /\ Started("poller")
  /\ \E i \in 1..Len(trace) : trace[i] = "poll"
  /\ polls = 0
  /\ ~ignoreLocalChanges
  /\ revision = 0

\* C23 (writes under the flag): every file the engine writes while the
\* local watcher is active, the files written by a full-sync pass that
\* runFullSync started as a fallback included, is written with
\* ignoreLocalChanges set.
C23_WritesUnderFlag == \A w \in writes : w.flag

\* C24 (one manifest writer): no two of a full-sync pass, a poll run and a
\* change-processor action are between their read and their write of the
\* manifest at the same time, and whoever writes the manifest has read the
\* revision it replaces.
C24_OneManifestWriter ==
  [][ /\ Cardinality(reading') <= 1
      /\ \A r \in reading \ reading' : revision' # revision => r.read = revision
    ]_vars

\* the place of a log entry in the startup sequence; the callbacks handled
\* come last
Rank(e) ==
  CASE e = "config" -> 1
    [] e = "fullSyncStart" -> 2
    [] e = "fullSyncEnd" -> 3
    [] e = "subscribe" -> 4
    [] e = "poller" -> 5
    [] e = "watcher" -> 6
    [] e = "handlers" -> 7
    [] OTHER -> 8
Before(a, b) ==
  \A j \in 1..Len(trace) : trace[j] = b => \E i \in 1..(j - 1) : trace[i] = a

\* C25 (startup order): config and token are read first; with initialSync
\* the full reconciliation runs and has terminated before anything else;
\* then the manifested documents are offered for subscription, the poller
\* is started, the watcher is started and the WebSocket handlers are
\* registered, in this order; no poll run, watcher callback or WebSocket
\* event is handled before the initial reconciliation has terminated.
C25_StartupOrder ==
  /\ \A i, j \in 1..Len(trace) : i < j => Rank(trace[i]) <= Rank(trace[j])
  /\ mainpc \notin {"config", "exit1"} => Started("config")
  /\ mainpc = "exit1" => trace = <<>>
  /\ Before("config", "fullSyncStart") /\ Before("config", "subscribe")
  /\ Before("subscribe", "poller") /\ Before("poller", "watcher")
  /\ Before("watcher", "handlers")
  /\ \A e \in {"poll", "skip", "local", "event"} : Before("handlers", e)
  /\ IF config.initialSync = "true"
       THEN /\ Before("fullSyncStart", "fullSyncEnd")
            /\ \A e \in {"subscribe", "poller", "watcher", "handlers",
                         "poll", "skip", "local", "event"} : Before("fullSyncEnd", e)
       ELSE ~Started("fullSyncStart")

\* a startup with the initial reconciliation, after which a poll run, a
\* watcher callback and a WebSocket event have been handled
C25_Witness ==
  /\ config.initialSync = "true"
  /\ Started("fullSyncEnd")
  /\ Started("poll") /\ Started("local") /\ Started("event")
  /\ mainpc = "up"

\* a required key is missing; a key holds a value of the wrong kind (the
\* space id is not a string, the interval is neither a positive number nor
\* one of the spellings that disable polling, initialSync is no boolean)
KeyMissing == \E k \in DOMAIN config : config[k] = "missing"
KeyMalformed ==
  \/ config.wikiSpaceId = "7493"
  \/ config.pollIntervalSeconds = "'abc'"
  \/ config.initialSync = "'yes'"

\* C26 (configuration and token errors): with a required key missing or
\* malformed, or the token file missing or empty, the worker runs no full
\* sync and starts neither the poller nor the watcher nor the WebSocket
\* client: main does not get past its checks.
C26_BadConfigStartsNothing ==
  (KeyMissing \/ KeyMalformed \/ tokenFile # "ok") =>
    /\ mainpc \in {"config", "exit1"}
    /\ trace = <<>>
    /\ child = "none"
    /\ polls = 0

\* ------------------------------------------- uploadMarkdownToDocument
DELETE_BATCH_SIZE == 100
CREATE_BATCH_SIZE == 100

\* the most children a document has and the most blocks a file gives
MaxChildren == 201
\* the numbers of children and of blocks looked at: none, one, a full
\* batch, one more than a batch, more than two batches
Sizes == {0, 1, DELETE_BATCH_SIZE, DELETE_BATCH_SIZE + 1, MaxChildren}

\* a block is a number: i is the i-th block of the file when it is text,
\* 1000 + i when it is a table; the children the document had are negative
isTable(block) == block > 1000

InitUpload ==
  /\ InitReconciler
  /\ NoWriter
  /\ NoApi
  /\ NoSubscriptions
  /\ NoProcessor
  /\ NoOrchestrator
  /\ NoCreator
  /\ NoListing
  /\ NoSupervisor
  /\ \E n \in Sizes : children = [i \in 1..n |-> 0 - i]
  /\ \E m \in Sizes : \E tables \in SUBSET ({1, CREATE_BATCH_SIZE, m} \cap 1..m) :
       newBlocks = [i \in 1..m |-> IF i \in tables THEN 1000 + i ELSE i]
  /\ remaining = 0
  /\ index = 0
  /\ buffer = <<>>
  /\ position = 0
  /\ calls = <<>>
  /\ upc = "count"

\* the server removes the children [from, to) / inserts blocks at an index
Removed(seq, from, to) == SubSeq(seq, 1, from) \o SubSeq(seq, to + 1, Len(seq))
Inserted(seq, at, chunk) == SubSeq(seq, 1, at) \o chunk \o SubSeq(seq, at + 1, Len(seq))

\* deleteAllChildren: let remaining = await fetchChildrenCount(...)
CountChildren ==
  /\ upc = "count"
  /\ remaining' = Len(children)
  /\ calls' = Append(calls, [op |-> "count", from |-> 0, to |-> Len(children)])
  /\ upc' = IF Len(children) > 0 THEN "delete" ELSE "append"
  /\ UNCHANGED <<children, newBlocks, index, buffer, position>>

\* one iteration of deleteAllChildren's loop
DeleteBatch ==
  /\ upc = "delete"
  /\ \E batch \in {Min(DELETE_BATCH_SIZE, remaining)} :
       /\ children' = Removed(children, 0, batch)
       /\ calls' = Append(calls, [op |-> "delete", from |-> 0, to |-> batch])
       /\ remaining' = remaining - batch
       /\ upc' = IF remaining - batch > 0 THEN "delete" ELSE "append"
  /\ UNCHANGED <<newBlocks, index, buffer, position>>

\* the blocks from position p on, up to the next table or the end
Run(p) ==
  LET stop == {i \in (p + 1)..Len(newBlocks) : isTable(newBlocks[i])}
      last == IF stop = {} THEN Len(newBlocks)
              ELSE (CHOOSE i \in stop : \A j \in stop : i <= j) - 1
  IN  SubSeq(newBlocks, p + 1, last)

\* appendBlocksWithTables's loop up to its next request: the blocks that
\* are no tables go into the buffer; when there is none left the call ends
PushBlocks ==
  /\ upc = "append"
  /\ buffer = <<>>
  /\ IF position = Len(newBlocks) THEN TRUE ELSE ~isTable(newBlocks[position + 1])
  /\ buffer' = Run(position)
  /\ position' = position + Len(Run(position))
  /\ upc' = IF position = Len(newBlocks) THEN "done" ELSE upc
  /\ UNCHANGED <<children, newBlocks, remaining, index, calls>>

\* mutant: the index is not advanced
indexAfter_Stuck(at, chunk) == at

\* index += chunk.length
indexAfter(at, chunk) == at + Len(chunk)

\* one iteration of appendBlocks's loop, called by flushBuffer
AppendChunk ==
  /\ upc = "append"
  /\ buffer # <<>>
  /\ \E chunk \in {SubSeq(buffer, 1, Min(CREATE_BATCH_SIZE, Len(buffer)))} :
       /\ children' = Inserted(children, index, chunk)
       /\ calls' = Append(calls, [op |-> "append", from |-> index, to |-> index + Len(chunk)])
       /\ index' = indexAfter(index, chunk)
       /\ buffer' = SubSeq(buffer, Len(chunk) + 1, Len(buffer))
  /\ UNCHANGED <<newBlocks, remaining, position, upc>>

\* createTableWithContent for a table with rows: the table is posted at
\* index (its cells are filled below the top level) and index + 1 returned
CreateTable ==
  /\ upc = "append"
  /\ buffer = <<>>
  /\ position < Len(newBlocks)
  /\ isTable(newBlocks[position + 1])
  /\ children' = Inserted(children, index, <<newBlocks[position + 1]>>)
  /\ calls' = Append(calls, [op |-> "append", from |-> index, to |-> index + 1])
  /\ index' = index + 1
  /\ position' = position + 1
  /\ UNCHANGED <<newBlocks, remaining, buffer, upc>>

NextUpload ==
  \/ CountChildren /\ UNCHANGED <<reconciler, writer, api, subscriptions, processor,
                                  orchestrator, creator, listing, supervisor>>
  \/ DeleteBatch /\ UNCHANGED <<reconciler, writer, api, subscriptions, processor,
                                orchestrator, creator, listing, supervisor>>
  \/ PushBlocks /\ UNCHANGED <<reconciler, writer, api, subscriptions, processor,
                               orchestrator, creator, listing, supervisor>>
  \/ AppendChunk /\ UNCHANGED <<reconciler, writer, api, subscriptions, processor,
                                orchestrator, creator, listing, supervisor>>
  \/ CreateTable /\ UNCHANGED <<reconciler, writer, api, subscriptions, processor,
                                orchestrator, creator, listing, supervisor>>

SpecUpload == InitUpload /\ [][NextUpload]_vars

\* the requests of one kind, as places in the log
CallsOf(op) == {i \in 1..Len(calls) : calls[i].op = op}
\* the number of children the document had
Counted == calls[1].to

DocTitles == {"", "Notes", "Plan"}
\* what a POST /docx/v1/documents can give: a document, a response
\* without document_id, a rejection
Results == {"ok", "no_id", "error"}

\* the heading-1 block whose text is the title, as a number below 1
heading1(title) ==
  CASE title = "Notes" -> 0 - 1
    [] title = "Plan" -> 0 - 2
    [] OTHER -> 0

InitCreate ==
  /\ InitReconciler
  /\ NoWriter
  /\ NoApi
  /\ NoSubscriptions
  /\ NoProcessor
  /\ NoOrchestrator
  /\ NoUploader
  /\ NoListing
  /\ NoSupervisor
  /\ docTitle \in DocTitles
  /\ \E m \in {0, 1, CREATE_BATCH_SIZE} : \E tables \in SUBSET ({1, m} \cap 1..m) :
       fileBlocks = [i \in 1..m |-> IF i \in tables THEN 1000 + i ELSE i]
  /\ posts = <<>>
  /\ titleUsed = FALSE
  /\ cpc = "create"

\* mutant: the blocks are appended as they are
contentBlocks_Plain(usedTitle, title, blocks) == blocks

\* createDocumentFromMarkdown: const contentBlocks = usedTitle ? blocks : [heading1, ...blocks]
contentBlocks(usedTitle, title, blocks) ==
  IF usedTitle THEN blocks ELSE <<heading1(title)>> \o blocks

\* createDocument returns: appendBlocksWithTables is called with contentBlocks
Created(usedTitle) ==
  /\ titleUsed' = usedTitle
  /\ newBlocks' = contentBlocks(usedTitle, docTitle, fileBlocks)
  /\ upc' = "append"
  /\ cpc' = "append"

\* createDocument's try block: one POST, with the title when there is one
PostDocument(result) ==
  /\ cpc = "create"
  /\ posts' = Append(posts, [titled |-> docTitle # "", result |-> result])
  /\ IF result = "ok"
       THEN Created(docTitle # "")
       ELSE /\ cpc' = IF docTitle # "" THEN "retry" ELSE "failed"
            /\ UNCHANGED <<titleUsed, newBlocks, upc>>
  /\ UNCHANGED <<docTitle, fileBlocks, children, remaining, index, buffer, position, calls>>

\* createDocument's catch block when there is a title: one POST without it
RetryUntitled(result) ==
  /\ cpc = "retry"
  /\ posts' = Append(posts, [titled |-> FALSE, result |-> result])
  /\ IF result = "ok"
       THEN Created(FALSE)
       ELSE cpc' = "failed" /\ UNCHANGED <<titleUsed, newBlocks, upc>>
  /\ UNCHANGED <<docTitle, fileBlocks, children, remaining, index, buffer, position, calls>>

\* await addDocToWiki(spaceId, token, documentId); return documentId
AddDocToWiki ==
  /\ cpc = "append"
  /\ upc = "done"
  /\ cpc' = "done"
  /\ UNCHANGED <<docTitle, posts, titleUsed, fileBlocks, uploader>>

NextCreate ==
  \/ \E result \in Results : PostDocument(result)
       /\ UNCHANGED <<reconciler, writer, api, subscriptions, processor,
                      orchestrator, listing, supervisor>>
  \/ \E result \in Results : RetryUntitled(result)
       /\ UNCHANGED <<reconciler, writer, api, subscriptions, processor,
                      orchestrator, listing, supervisor>>
  \/ PushBlocks /\ UNCHANGED <<reconciler, writer, api, subscriptions, processor,
                               orchestrator, creator, listing, supervisor>>
  \/ AppendChunk /\ UNCHANGED <<reconciler, writer, api, subscriptions, processor,
                                orchestrator, creator, listing, supervisor>>
  \/ CreateTable /\ UNCHANGED <<reconciler, writer, api, subscriptions, processor,
                                orchestrator, creator, listing, supervisor>>
  \/ AddDocToWiki /\ UNCHANGED <<reconciler, writer, api, subscriptions, processor,
                                 orchestrator, listing, supervisor>>

SpecCreate == InitCreate /\ [][NextCreate]_vars

\* the titled request has been sent and has failed
TitledFailed == posts # <<>> /\ posts[1].titled /\ posts[1].result # "ok"
\* the document exists
DocumentCreated == cpc \in {"append", "done"}

\* C28 (create falls back to an untitled document): a create request
\* that fails with a title is followed by exactly one request without a
\* title, and the blocks appended then start with the heading-1 block of
\* the title; when the titled request succeeds the blocks are appended
\* without a heading; when the retry fails too the operation fails and
\* nothing is appended.
C28_UntitledRetry ==
  /\ Len(posts) <= 2
  /\ \A i \in 1..Len(posts) : posts[i].titled => i = 1
  /\ Len(posts) = 2 => TitledFailed
  /\ TitledFailed =>
       /\ cpc # "retry" => Len(posts) = 2
       /\ DocumentCreated =>
            /\ posts[2].result = "ok"
            /\ newBlocks = <<heading1(docTitle)>> \o fileBlocks
       /\ Len(posts) = 2 /\ posts[2].result # "ok" =>
            cpc = "failed" /\ calls = <<>> /\ children = <<>>
       /\ cpc = "done" => children = <<heading1(docTitle)>> \o fileBlocks
  /\ posts # <<>> /\ posts[1].titled /\ posts[1].result = "ok" =>
       /\ Len(posts) = 1
       /\ DocumentCreated /\ newBlocks = fileBlocks
       /\ cpc = "done" => children = fileBlocks

\* the titled request failed, the retry gave a document and the heading
\* and the file's blocks are in it
C28_Witness ==
  /\ TitledFailed
  /\ cpc = "done"
  /\ Len(fileBlocks) > 1
  /\ children[1] = heading1(docTitle)

\* ------------------------- fetchAllBlocks, fetchWikiNodes, fetchChildrenCount
\* the most pages one listing asks for
MaxPages == 3

\* what the server can answer to the request number k: no or two items
\* (numbered after the request), page_token absent, empty or set,
\* next_page_token absent or set, has_more true, false or absent
Responses(k) ==
  [items : {[i \in 1..n |-> 10 * k + i] : n \in {0, 2}},
   page_token : {"absent", "", "t1"},
   next_page_token : {"absent", "t2"},
   has_more : {"true", "false", "absent"}]

InitList ==
  /\ InitReconciler
  /\ NoWriter
  /\ NoApi
  /\ NoSubscriptions
  /\ NoProcessor
  /\ NoOrchestrator
  /\ NoUploader
  /\ NoCreator
  /\ NoSupervisor
  /\ pages = <<>>
  /\ collected = <<>>
  /\ pageToken = "undefined"
  /\ hasMore = TRUE
  /\ sent = <<>>

\* apiRequest leaves a query value out when it is undefined, null or ''
queryValue(value) == IF value \in {"undefined", ""} THEN "omitted" ELSE value

\* pageToken = data.page_token || data.next_page_token || ''
nextPageToken(data) ==
  IF data.page_token \notin {"absent", ""} THEN data.page_token
  ELSE IF data.next_page_token # "absent" THEN data.next_page_token
  ELSE ""

\* mutant: has_more is not looked at
moreAfter_TokenOnly(data, token) == token # ""

\* typeof data.has_more === 'boolean' ? data.has_more : Boolean(pageToken)
moreAfter(data, token) ==
  IF data.has_more # "absent" THEN data.has_more = "true" ELSE token # ""

\* one iteration of the loop: a request and what is done with its answer
FetchPage(data) ==
  /\ hasMore
  /\ Len(pages) < MaxPages
  /\ sent' = Append(sent, queryValue(pageToken))
  /\ pages' = Append(pages, data)
  /\ collected' = collected \o data.items
  /\ pageToken' = nextPageToken(data)
  /\ hasMore' = moreAfter(data, nextPageToken(data))

NextList ==
  \E data \in Responses(Len(pages) + 1) : FetchPage(data)
    /\ UNCHANGED <<reconciler, writer, api, subscriptions, processor,
                   orchestrator, uploader, creator, supervisor>>

SpecList == InitList /\ [][NextList]_vars

\* the items of the first k pages, in request order
RECURSIVE ItemsUpTo(_)
ItemsUpTo(k) == IF k = 0 THEN <<>> ELSE ItemsUpTo(k - 1) \o pages[k].items
\* the token a page gave back
Returned(page) ==
  IF page.page_token \in {"t1"} THEN page.page_token
  ELSE IF page.next_page_token \in {"t2"} THEN page.next_page_token
  ELSE "omitted"
\* the page ends the listing
Ends(page) ==
  \/ page.has_more = "false"
  \/ page.has_more = "absent" /\ Returned(page) = "omitted"

\* C29 (pagination): the first request carries no token and every later
\* one the token the page before gave back; a request follows a page
\* exactly when that page neither reports has_more = false nor, without
\* has_more, gives an empty token; the result is the concatenation of the
\* items of all pages in request order, each item once.
C29_Pagination ==
  /\ Len(sent) = Len(pages)
  /\ \A k \in 1..Len(sent) :
       sent[k] = IF k = 1 THEN "omitted" ELSE Returned(pages[k - 1])
  /\ \A k \in 1..(Len(pages) - 1) : ~Ends(pages[k])
  /\ pages # <<>> => (hasMore <=> ~Ends(pages[Len(pages)]))
  /\ pages = <<>> => hasMore
  /\ collected = ItemsUpTo(Len(pages))
  /\ \A i, j \in 1..Len(collected) : collected[i] = collected[j] => i = j

\* the listing has ended after three pages, the last one without has_more
\* and without a token, and items of each page have been collected
C29_Witness ==
  /\ ~hasMore
  /\ Len(pages) = 3
  /\ pages[3].has_more = "absent"
  /\ Len(collected) >= 4

\* ------------------------------------------------------------- stop
Workers == {"sync", "auth"}
\* what a PID file can hold: nothing readable (no file), nothing (a write
\* that was cut short), the text of an undefined pid (spawn failed), a PID
PidContents == {"absent", "", "undefined\n", "101\n", "102\n"}
Pids == {101, 102}

Null == [null |-> TRUE, value |-> 0]
\* readPid: Number(raw.trim()) when it is finite, null otherwise and when
\* the file cannot be read
readPid(text) ==
  CASE text = "" -> [null |-> FALSE, value |-> 0]
    [] text = "101\n" -> [null |-> FALSE, value |-> 101]
    [] text = "102\n" -> [null |-> FALSE, value |-> 102]
    [] text = "201\n" -> [null |-> FALSE, value |-> 201]
    [] text = "202\n" -> [null |-> FALSE, value |-> 202]
    [] text = "203\n" -> [null |-> FALSE, value |-> 203]
    [] OTHER -> Null

\* if (pid): null and 0 are falsy
truthy(pid) == ~pid.null /\ pid.value # 0

InitStop ==
  /\ InitReconciler
  /\ NoWriter
  /\ NoApi
  /\ NoSubscriptions
  /\ NoProcessor
  /\ NoOrchestrator
  /\ NoUploader
  /\ NoCreator
  /\ NoListing
  /\ pidFiles \in [Workers -> PidContents]
  /\ alive \in SUBSET Pids
  /\ signals = <<>>
  /\ held = [w \in Workers |-> Null]
  /\ spc = [worker |-> "none", at |-> "read"]
  /\ NoStarting

\* where stop goes on: to a place in the same branch, or past the branch
\* ("next": from sync to auth, from auth to the end)
Onward(worker, to) ==
  IF to # "next" THEN [worker |-> worker, at |-> to]
  ELSE IF worker = "sync" THEN [worker |-> "auth", at |-> "probe"]
  ELSE [worker |-> "none", at |-> "done"]

\* const authPid = await readPid(AUTH_PID); const syncPid = await readPid(SYNC_PID)
ReadPids ==
  /\ spc.at = "read"
  /\ held' = [w \in Workers |-> readPid(pidFiles[w])]
  /\ spc' = [worker |-> "sync", at |-> "probe"]
  /\ UNCHANGED <<pidFiles, alive, signals, starting>>

\* mutant: the file of a dead process is left
afterProbe_SkipDead(isAlive) == IF isAlive THEN "kill" ELSE "next"

\* if (isProcessAlive(pid)) { kill } await removePid(...)
afterProbe(isAlive) == IF isAlive THEN "kill" ELSE "remove"

\* if (pid) { if (isProcessAlive(pid)) ... } else { log 'not running' }
Probe ==
  /\ spc.at = "probe"
  /\ spc' = IF truthy(held[spc.worker])
              THEN Onward(spc.worker, afterProbe(held[spc.worker].value \in alive))
              ELSE Onward(spc.worker, "next")
  /\ UNCHANGED <<pidFiles, alive, signals, held, starting>>

\* try { process.kill(pid, 'SIGTERM') } catch { warn }: the signal fails
\* when the process has gone since the probe
SendSigterm ==
  /\ spc.at = "kill"
  /\ signals' = Append(signals, [worker |-> spc.worker, pid |-> held[spc.worker].value,
                                 delivered |-> held[spc.worker].value \in alive])
  /\ spc' = Onward(spc.worker, "remove")
  /\ UNCHANGED <<pidFiles, alive, held, starting>>

\* removePid: unlink; ENOENT is ignored, any other error is thrown and
\* stop fails
RemovePid(unlinks) ==
  /\ spc.at = "remove"
  /\ IF unlinks \/ pidFiles[spc.worker] = "absent"
       THEN /\ pidFiles' = [pidFiles EXCEPT ![spc.worker] = "absent"]
            /\ spc' = Onward(spc.worker, "next")
       ELSE /\ spc' = [worker |-> spc.worker, at |-> "failed"]
            /\ UNCHANGED pidFiles
  /\ UNCHANGED <<alive, signals, held, starting>>

\* a worker exits, on the signal or by itself
WorkerExits(pid) ==
  /\ pid \in alive
  /\ spc.at \notin {"done", "failed"}
  /\ alive' = alive \ {pid}
  /\ UNCHANGED <<pidFiles, signals, held, spc, starting>>

NextStop ==
  \/ ReadPids /\ UNCHANGED <<reconciler, writer, api, subscriptions, processor,
                             orchestrator, uploader, creator, listing>>
  \/ Probe /\ UNCHANGED <<reconciler, writer, api, subscriptions, processor,
                          orchestrator, uploader, creator, listing>>
  \/ SendSigterm /\ UNCHANGED <<reconciler, writer, api, subscriptions, processor,
                         orchestrator, uploader, creator, listing>>
  \/ \E unlinks \in BOOLEAN : RemovePid(unlinks)
       /\ UNCHANGED <<reconciler, writer, api, subscriptions, processor,
                      orchestrator, uploader, creator, listing>>
  \/ \E pid \in Pids : WorkerExits(pid)
       /\ UNCHANGED <<reconciler, writer, api, subscriptions, processor,
                      orchestrator, uploader, creator, listing>>

SpecStop == InitStop /\ [][NextStop]_vars

\* stop is past the branch of a worker
Past(worker) ==
  \/ spc.at = "done"
  \/ worker = "sync" /\ spc.worker = "auth"
\* SIGTERM has been sent to the worker's recorded PID
Signalled(worker) ==
  \E i \in 1..Len(signals) :
    signals[i].worker = worker /\ signals[i].pid = held[worker].value
\* the signals went to sync first, then to auth
SyncThenAuth ==
  \A i, j \in 1..Len(signals) :
    i < j => signals[i].worker = "sync" /\ signals[j].worker = "auth"
\* a recorded worker that is alive has been sent SIGTERM once stop is
\* past it
LiveWorkersSignalled ==
  \A w \in Workers :
    Past(w) /\ truthy(held[w]) /\ held[w].value \in alive => Signalled(w)

\* C30 as stated: after stop neither PID file exists, and every recorded
\* live worker has been sent SIGTERM, sync before auth.
C30_NoPidFileAfterStop ==
  /\ spc.at = "done" => \A w \in Workers : pidFiles[w] = "absent"
  /\ LiveWorkersSignalled
  /\ SyncThenAuth

\* C30 (amended): after stop no PID file that records a PID (a number
\* other than 0) exists, whether its process was alive, dead, or gone by
\* the time of the signal, while a file that is empty or holds no number
\* is left as it is; every recorded live worker has been sent SIGTERM,
\* sync before auth.
C30_RecordedPidFilesRemoved ==
  /\ \A w \in Workers :
       Past(w) =>
         /\ truthy(held[w]) => pidFiles[w] = "absent"
         /\ ~truthy(held[w]) => ~Signalled(w) /\ ~truthy(readPid(pidFiles[w]))
  /\ LiveWorkersSignalled
  /\ SyncThenAuth

\* stop has ended, both files recorded a PID and are gone: the sync
\* worker was signalled but had exited by then, the auth worker was dead
\* at the probe
C30_Witness ==
  /\ spc.at = "done"
  /\ \A w \in Workers : truthy(held[w]) /\ pidFiles[w] = "absent"
  /\ Len(signals) = 1
  /\ signals[1].worker = "sync" /\ ~signals[1].delivered

\* -------------------------------------------- the reconciler, further claims
\* a step takes a local file away from its name
LeavesName(p) == p \in LocalFiles(files) /\ p \notin DOMAIN files'
\* a step changes the `file` of an entry the pass keeps
Repairs(d) ==
  /\ d \in DOMAIN manifestDocs /\ d \in DOMAIN manifestDocs'
  /\ manifestDocs'[d].file # manifestDocs[d].file

\* C33 as stated: in a pass that follows a completed pass with no
\* external change in between, no local file leaves its name and no
\* entry's `file` changes.
C33_SecondPassKeepsPaths ==
  [][follow => /\ \A p \in DOMAIN files : ~LeavesName(p)
               /\ \A d \in DocIds : ~Repairs(d)]_vars

\* --------------------------------------- the older reconciler (src/sync.js)
\* the older variant's entries have no fileType
OldEntry(e) == [file |-> e.file, revisionId |-> e.revisionId, title |-> e.title, hash |-> e.hash]

\* the entries the older variant's second loop visits: it goes over a copy
\* of manifestDocs taken before it adds entries, so the entries of the
\* documents it has created itself (on the server by now) are not visited
MissingOld(docs) == {d \in DOMAIN docs : d \notin DOMAIN remoteDocs /\ d \notin DOMAIN remote}

afterOlder(td, docs, lmap) ==
  IF td # {} THEN "docs"
  ELSE IF MissingOld(docs) # {} THEN "missing"
  ELSE IF Unpaired(docs, lmap) # {} THEN "create"
  ELSE "write"

\* fileRel = existing?.file, or the unique title-derived name; no rename
fileRelOlder(d) ==
  [renamed |-> FALSE,
   fileRel |-> IF existing(d) THEN manifestDocs[d].file
               ELSE ensureUniqueFilePath(baseName(d) \o <<".md">>, usedPaths),
   files |-> files, localMap |-> localMap, usedPaths |-> usedPaths, docs |-> manifestDocs]

\* mutant: the newer variant's branches
branchOlder_AsNewer(d, r) == Branch(d, r)

\* which branch of the older loop body runs: `if (!existing || !localExists)`
\* downloads
branchOlder(d, r) ==
  IF ~existing(d) \/ r.fileRel \notin DOMAIN r.localMap THEN "new"
  ELSE IF remoteChanged(d) /\ localChanged(d, r) THEN "conflict"
  ELSE IF remoteChanged(d) THEN "download"
  ELSE IF localChanged(d, r) THEN "upload"
  ELSE "skip"

ProcessDocOld(d) ==
  /\ pc = "docs"
  /\ d \in todo
  /\ \E r \in {fileRelOlder(d)} :
     \E b \in {branchOlder(d, r)} :
     \E markdown \in {downloadDocumentToFile(d, Metadata(d))} :
     \E uploadedDoc \in {IF b = "upload" THEN uploadMarkdownToDocument(remote[d], r.files[r.fileRel])
                         ELSE remote[d]} :
     \E docs2 \in {IF b \in {"conflict", "deleteRemote"}
                   THEN BranchDocs(d, r, b, markdown, uploadedDoc)
                   ELSE [BranchDocs(d, r, b, markdown, uploadedDoc) EXCEPT ![d] = OldEntry(@)]} :
     \E lmap2 \in {IF b \in {"new", "download"} THEN Put(r.localMap, r.fileRel, sha256(markdown))
                   ELSE r.localMap} :
       /\ files' = BranchFiles(r, b, markdown)
       /\ remote' = CASE b = "deleteRemote" -> Drop(remote, d)
                      [] b = "upload" -> [remote EXCEPT ![d] = uploadedDoc]
                      [] OTHER -> remote
       /\ manifestDocs' = docs2
       /\ localMap' = lmap2
       /\ usedPaths' = IF b = "new" THEN r.usedPaths \cup {r.fileRel} ELSE r.usedPaths
       /\ counters' = Bump(counters, BranchCounter(b))
       /\ todo' = todo \ {d}
       /\ pc' = afterOlder(todo \ {d}, docs2, lmap2)
  /\ UNCHANGED <<created, manifest, remoteDocs, changes, quiet, follow, history>>

\* the older loop over manifest entries whose document is not in remoteMap:
\* the entry goes when the local file is missing, else the document is
\* created again from the file and the entry moves to the new document
RemoteMissingOld(d) ==
  /\ pc = "missing"
  /\ d \in MissingOld(manifestDocs)
  /\ LET rel == manifestDocs[d].file
         has == rel \in DOMAIN localMap
         newDocId == DocName[created + 1]
         document == createDocumentFromMarkdown(files[rel])
         entry == [file |-> rel, revisionId |-> document.revisionId,
                   title |-> IF document.title # <<>> THEN document.title
                             ELSE manifestDocs[d].title,
                   hash |-> localMap[rel]]
         docs2 == IF has THEN Drop(Put(manifestDocs, newDocId, entry), d)
                  ELSE Drop(manifestDocs, d)
     IN  /\ has => created < MaxDocs
         /\ remote' = IF has THEN Put(remote, newDocId, document) ELSE remote
         /\ created' = IF has THEN created + 1 ELSE created
         /\ counters' = IF has THEN Bump(counters, "uploaded") ELSE counters
         /\ manifestDocs' = docs2
         /\ pc' = afterOlder({}, docs2, localMap)
  /\ UNCHANGED <<files, manifest, remoteDocs, todo, localMap, usedPaths, changes, quiet, follow, history>>

\* the older loop over local files that fileToDoc does not hold
CreateFromLocalOld(p) ==
  /\ pc = "create"
  /\ p \in Unpaired(manifestDocs, localMap)
  /\ created < MaxDocs
  /\ LET newDocId == DocName[created + 1]
         document == createDocumentFromMarkdown(files[p])
         docs2 == Put(manifestDocs, newDocId,
                      [file |-> p, revisionId |-> document.revisionId,
                       title |-> document.title, hash |-> localMap[p]])
     IN  /\ remote' = Put(remote, newDocId, document)
         /\ created' = created + 1
         /\ manifestDocs' = docs2
         /\ counters' = Bump(counters, "uploaded")
         /\ pc' = AfterCreate(docs2, localMap)
  /\ UNCHANGED <<files, manifest, remoteDocs, todo, localMap, usedPaths, changes, quiet, follow, history>>

NextOld ==
  \/ RemoteCreate /\ UNCHANGED others
  \/ RemoteEdit /\ UNCHANGED others
  \/ RemoteRetitle /\ UNCHANGED others
  \/ RemoteDelete /\ UNCHANGED others
  \/ LocalCreate /\ UNCHANGED others
  \/ LocalEdit /\ UNCHANGED others
  \/ LocalDelete /\ UNCHANGED others
  \/ StartPass /\ UNCHANGED others
  \/ \E d \in DocIds : ProcessDocOld(d) /\ UNCHANGED others
  \/ \E d \in DocIds : RemoteMissingOld(d) /\ UNCHANGED others
  \/ \E p \in DOMAIN files : CreateFromLocalOld(p) /\ UNCHANGED others
  \/ WriteManifest /\ UNCHANGED others

SpecOld == Init /\ [][NextOld]_vars

\* a step of a pass
PassStep == pc \notin Resting
\* the older pass visits an entry whose document is gone
Recreates(d) == pc = "missing" /\ d \in DOMAIN manifestDocs /\ d \notin DOMAIN manifestDocs'

\* C34 (the older variant): no step of a pass of the older variant removes
\* a remote document or takes a local file away from its name; a visited
\* document with an entry and no local file is downloaded to the entry's
\* file; an entry whose document is gone and whose local file exists moves
\* to a document created from the file; and on a document with an entry,
\* a local file and an unchanged title the older variant takes the branch
\* the newer variant takes.
C34_OlderVariant ==
  [][PassStep =>
       /\ \A d \in DOMAIN remote : d \in DOMAIN remote'
       /\ \A p \in DOMAIN files : p \in DOMAIN files'
       /\ \A d \in DocIds :
            /\ Visits(d) /\ Paired(d) /\ ~LocalPresent(d) =>
                 /\ files' = Put(files, manifestDocs[d].file, ServerMarkdown(d))
                 /\ d \in DOMAIN manifestDocs'
                 /\ manifestDocs'[d].hash = sha256(ServerMarkdown(d))
                 /\ OnlyCounts("downloaded")
            /\ Recreates(d) /\ LocalPresent(d) =>
                 \E n \in DOMAIN remote' \ DOMAIN remote :
                   /\ remote'[n].blocks = createDocumentFromMarkdown(LocalBytes(d)).blocks
                   /\ n \in DOMAIN manifestDocs'
                   /\ manifestDocs'[n].file = manifestDocs[d].file
                   /\ files' = files
            /\ Visits(d) /\ Paired(d) /\ LocalPresent(d)
                 /\ manifestDocs[d].title = remoteDocs[d].title =>
                 /\ branchOlder(d, fileRelOlder(d)) = Branch(d, RenameStep(d, desiredRel(d)))
                 /\ OnlyCounts(BranchCounter(Branch(d, RenameStep(d, desiredRel(d)))))]_vars

\* a pass of the older variant is about to write the manifest: no
\* document has a revision the manifest does not record, and yet one has
\* been downloaded, its local file being gone
C34_Witness ==
  /\ pc = "write"
  /\ counters.downloaded >= 1
  /\ DOMAIN remoteDocs # {}
  /\ \A d \in DOMAIN remoteDocs :
       d \in DOMAIN manifest /\ manifest[d].revisionId = remoteDocs[d].revisionId

\* a pass has completed and nothing has changed since
JustSynced == pc = "idle" /\ quiet

\* C35 as stated: after a completed pass the `file` values of the
\* manifest are exactly the local files the walker enumerates, each the
\* file of one entry, and every entry's document exists remotely.
C35_ManifestMatchesBothSides ==
  JustSynced =>
    /\ EntryFiles(manifest) = LocalFiles(files)
    /\ \A a \in DOMAIN manifest, b \in DOMAIN manifest :
         a # b => manifest[a].file # manifest[b].file
    /\ DOMAIN manifest \subseteq DOMAIN remote

\* the running pass re-runs the reconciler after an aborted pass, with no
\* external change since the abort
Recovering == history.on /\ PassStep
\* the third loop creates a document for the local file p in this step
CreatesFor(p) ==
  /\ pc = "create"
  /\ created' = created + 1
  /\ DocName[created + 1] \in DOMAIN manifestDocs'
  /\ manifestDocs'[DocName[created + 1]].file = p
\* the second loop deletes the local file of the entry of d in this step
DeletesFileOf(d) ==
  /\ pc = "missing"
  /\ d \in DOMAIN manifestDocs /\ d \notin DOMAIN manifestDocs'
  /\ manifestDocs[d].file \in DOMAIN files /\ manifestDocs[d].file \notin DOMAIN files'

\* C36 as stated: in a re-run after an aborted pass, with no external
\* change since, no document is created for a local file for which the
\* aborted pass had created one that still exists, no remote document is
\* deleted whose local file was there when the aborted pass started, and
\* no local file is deleted whose remote document still exists.
C36_RecoveryIsSafe ==
  [][Recovering =>
       /\ \A p \in DOMAIN files :
            CreatesFor(p) => ~\E n \in DOMAIN remote : <<n, p>> \in history.made
       /\ \A d \in DOMAIN remote : d \notin DOMAIN remote' => d \notin history.kept
       /\ \A d \in DocIds : DeletesFileOf(d) => d \notin DOMAIN remote]_vars

\* the local file of the entry of d holds an edit the manifest does not know
UnsyncedLocal(d) == Paired(d) /\ LocalPresent(d) /\ LocalHashDiffers(d)
\* after the step the bytes of that file are at the entry's path, or at the
\* path the step has renamed the entry to
Survives(d) ==
  \/ manifestDocs[d].file \in DOMAIN files' /\ files'[manifestDocs[d].file] = LocalBytes(d)
  \/ /\ d \in DOMAIN manifestDocs'
     /\ manifestDocs'[d].file \in DOMAIN files'
     /\ files'[manifestDocs'[d].file] = LocalBytes(d)

\* C37 as stated: no step of a pass overwrites or deletes a local file
\* whose hash differs from its entry's hash.
C37_UnsyncedLocalKept ==
  [][PassStep => \A d \in DocIds : UnsyncedLocal(d) => Survives(d)]_vars

\* C37 (amended): no step of a pass overwrites a local file whose hash
\* differs from its entry's hash, and such a file is deleted only by the
\* loop over the entries whose document is gone from the server; when the
\* document is still there (edited, retitled or neither) the bytes stay,
\* under the entry's name or the name the entry is renamed to.
C37_UnsyncedLocalKeptWhileRemoteExists ==
  [][PassStep =>
       \A d \in DocIds :
         UnsyncedLocal(d) =>
           \/ Survives(d)
           \/ d \notin DOMAIN remote /\ DeletesFileOf(d)]_vars

\* a pass has renamed the file of a retitled and edited document and saved
\* a conflict copy: the edited bytes, which the entry's hash does not
\* match, are under the new name
C37_Witness ==
  \E d \in DOMAIN manifestDocs \cap DOMAIN manifest :
    /\ pc = "write"
    /\ counters.conflicts = 1
    /\ manifestDocs[d].file # manifest[d].file
    /\ manifestDocs[d].file \in DOMAIN files
    /\ sha256(files[manifestDocs[d].file]) # manifestDocs[d].hash
    /\ manifest[d].file \notin DOMAIN files

\* the server holds a revision of d that the entry of d does not record
UnsyncedRemote(d) == Paired(d) /\ d \in DOMAIN remote /\ RevisionDiffers(d)
\* the step leaves the server's document d as it is
RemoteKept(d) == d \in DOMAIN remote' /\ remote'[d] = remote[d]
\* the step writes the server's content of d to a local file
SavesRemote(d) ==
  \E q \in DOMAIN files' :
    /\ files'[q] = ServerMarkdown(d)
    /\ q \in DOMAIN files => files[q] # files'[q]
\* the main loop deletes the document d, whose entry has no local file
DeletesLocallyDeleted(d) ==
  /\ Visits(d) /\ ~LocalPresent(d)
  /\ d \notin DOMAIN remote' /\ d \notin DOMAIN manifestDocs'
  /\ files' = files
  /\ OnlyCounts("deletedRemote")

\* C38 as stated: no step of a pass overwrites by an upload or deletes a
\* remote document whose revision differs from its entry's revisionId,
\* unless the step saves the document's content to a local file.
C38_UnsyncedRemoteKept ==
  [][PassStep => \A d \in DocIds : UnsyncedRemote(d) => RemoteKept(d) \/ SavesRemote(d)]_vars

\* C38 (amended): no step of a pass overwrites by an upload a remote
\* document whose revision differs from its entry's revisionId, and such a
\* document is deleted only when the main loop visits it and finds no
\* local file at its entry's path; its content is then saved nowhere.
C38_UnsyncedRemoteKeptWhileLocalExists ==
  [][PassStep =>
       \A d \in DocIds : UnsyncedRemote(d) => RemoteKept(d) \/ DeletesLocallyDeleted(d)]_vars

\* a pass has deleted a document whose enumerated revision the manifest
\* did not record, the local file of its entry being gone, and no local
\* file holds the content the server had
C38_Witness ==
  \E d \in DOMAIN manifest \cap DOMAIN remoteDocs :
    /\ pc = "write"
    /\ counters.deletedRemote = 1
    /\ manifest[d].revisionId # remoteDocs[d].revisionId
    /\ d \notin DOMAIN remote
    /\ d \notin DOMAIN manifestDocs
    /\ manifest[d].file \notin DOMAIN files

\* ------------------------------------------------- runFullSync, further
\* the child's process ends or cannot be started, and the runtime tells
ChildOutcome ==
  \/ \E code \in {0, 1} : ChildExits(code) /\ UNCHANGED aside
  \/ \E exitFollows \in BOOLEAN : ChildError(exitFollows) /\ UNCHANGED aside

\* main's model with a child whose outcome arrives
SpecMainFair == InitMain /\ [][NextMain]_vars /\ WF_vars(ChildOutcome)

\* a call of runFullSync has not returned
Awaiting == child # "none"
\* the call returns in this step
Returns == Awaiting /\ child' = "none"
\* the call scans the manifest for subscriptions before it returns
Scans ==
  \/ child = "startup" /\ trace' = trace \o <<"fullSyncEnd", "subscribe">>
  \/ child = "fallback" /\ trace' = Append(trace, "rescan")

\* C39 as stated: every call of runFullSync returns, whatever becomes of
\* the child (exit with code 0, with another code or a signal, or an
\* 'error' event because it cannot be spawned), and the call scans the
\* manifest for subscriptions if and only if the child, which writes the
\* manifest before it exits with code 0, has exited with code 0.
C39_RunFullSyncReturns ==
  /\ [](Awaiting => <>~Awaiting)
  /\ [][Returns => (Scans <=> revision' = revision + 1)]_vars

\* ------------------------------------------------------------- start
\* the invocations of start that are looked at
Starters == {"s1", "s2"}
\* the PIDs the system gives to the processes start spawns
NewPids == {201, 202, 203}
\* where an invocation is not, or no longer, at work
Ended == {"idle", "done", "failed", "interrupted"}
\* everything start's model leaves alone
offstage == <<reconciler, writer, api, subscriptions, processor, orchestrator,
              uploader, creator, listing, signals, held, spc>>

\* `${pid}\n`
writePid(pid) ==
  CASE pid = 101 -> "101\n"
    [] pid = 102 -> "102\n"
    [] pid = 201 -> "201\n"
    [] pid = 202 -> "202\n"
    [] pid = 203 -> "203\n"

\* mutant: no process is taken to run
isProcessAlive_Never(pid) == FALSE

\* if (!pid) return false; process.kill(pid, 0) succeeds
isProcessAlive(pid) == truthy(pid) /\ pid.value \in alive

\* mutant: a token file that exists is taken
tokenReady_Exists(text) == text.exists

\* waitForToken's test: readFile succeeds and raw.trim() is not empty
tokenReady(text) == text.exists /\ Trim(text.raw) # <<>>

\* what the token file can hold: nothing (no file), no text, white space,
\* a token
TokenTexts ==
  {[exists |-> FALSE, raw |-> <<>>], [exists |-> TRUE, raw |-> <<>>],
   [exists |-> TRUE, raw |-> <<" ">>], [exists |-> TRUE, raw |-> <<"t">>]}

\* the workers the PID files record
Recorded(f) ==
  {[worker |-> w, pid |-> readPid(f[w]).value] : w \in {v \in Workers : truthy(readPid(f[v]))}}

\* the PID file of a worker before start is run: none, one whose write was
\* cut short, the PID of the worker an earlier start has spawned
OldPid == [sync |-> 101, auth |-> 102]
StartContents == [w \in Workers |-> {"absent", "", writePid(OldPid[w])}]
\* a call of start that is not, or no longer, at work
Off(at) == [worker |-> "none", at |-> at, pid |-> Null, child |-> 0]

InitStart ==
  /\ InitReconciler
  /\ NoWriter
  /\ NoApi
  /\ NoSubscriptions
  /\ NoProcessor
  /\ NoOrchestrator
  /\ NoUploader
  /\ NoCreator
  /\ NoListing
  /\ pidFiles \in {f \in [Workers -> PidContents] : \A w \in Workers : f[w] \in StartContents[w]}
  /\ alive \in SUBSET Pids
  /\ signals = <<>>
  /\ held = <<>>
  /\ spc = [worker |-> "none", at |-> "none"]
  /\ starters = [s \in Starters |-> Off("idle")]
  /\ spawned = Recorded(pidFiles)
  /\ tokenText = [exists |-> FALSE, raw |-> <<>>]
  /\ tokenWasSet = FALSE

\* start goes on to `to`
Goes(s, to) ==
  starters' = [starters EXCEPT ![s] = IF to \in Ended THEN Off(to) ELSE [@ EXCEPT !.at = to]]
\* start is past the auth worker: on to the sync worker's PID file
\* past the sync worker: start returns
Leaves(s) ==
  starters' = [starters EXCEPT
                 ![s] = IF @.worker = "auth"
                          THEN [worker |-> "sync", at |-> "read", pid |-> Null, child |-> 0]
                        ELSE Off("done")]
\* no other invocation is at work
Alone(s) == \A o \in Starters \ {s} : starters[o].at \in Ended

\* start is called: readConfig and requireConfigValue(config, 'tokenPath')
\* return or throw
BeginStart(s, configOk) ==
  /\ starters[s].at \in Ended
  /\ starters' = [starters EXCEPT
                    ![s] = IF configOk
                             THEN [worker |-> "auth", at |-> "read", pid |-> Null, child |-> 0]
                             ELSE Off("failed")]
  /\ UNCHANGED <<pidFiles, alive, spawned, tokenText, tokenWasSet>>

\* const authPid = await readPid(AUTH_PID); const syncPid = await readPid(SYNC_PID)
StartReadPid(s) ==
  /\ starters[s].at = "read"
  /\ starters' = [starters EXCEPT ![s].pid = readPid(pidFiles[starters[s].worker]),
                                  ![s].at = "probe"]
  /\ UNCHANGED <<pidFiles, alive, spawned, tokenText, tokenWasSet>>

\* if (pid && isProcessAlive(pid)) { log 'already running' } else
\* { if (pid) await removePid(...); ... }
StartProbe(s) ==
  /\ starters[s].at = "probe"
  /\ IF truthy(starters[s].pid) /\ isProcessAlive(starters[s].pid) THEN Leaves(s)
     ELSE IF truthy(starters[s].pid) THEN Goes(s, "remove")
     ELSE IF starters[s].worker = "auth" THEN Goes(s, "spawn")
     ELSE Goes(s, "wait")
  /\ UNCHANGED <<pidFiles, alive, spawned, tokenText, tokenWasSet>>

\* removePid: unlink; ENOENT is ignored, any other error is thrown and
\* start fails
StartRemovePid(s, unlinks) ==
  /\ starters[s].at = "remove"
  /\ IF unlinks \/ pidFiles[starters[s].worker] = "absent"
       THEN /\ pidFiles' = [pidFiles EXCEPT ![starters[s].worker] = "absent"]
            /\ Goes(s, IF starters[s].worker = "auth" THEN "spawn" ELSE "wait")
       ELSE /\ Goes(s, "failed")
            /\ UNCHANGED pidFiles
  /\ UNCHANGED <<alive, spawned, tokenText, tokenWasSet>>

\* one round of waitForToken's loop: the file is read; start goes on when
\* it holds a token and sleeps a second otherwise
WaitForToken(s) ==
  /\ starters[s].at = "wait"
  /\ IF tokenReady(tokenText) THEN Goes(s, "spawn") ELSE UNCHANGED starters
  /\ UNCHANGED <<pidFiles, alive, spawned, tokenText, tokenWasSet>>

\* the user ends a start that waits for the token
InterruptStart(s) ==
  /\ starters[s].at = "wait"
  /\ Goes(s, "interrupted")
  /\ UNCHANGED <<pidFiles, alive, spawned, tokenText, tokenWasSet>>

\* the PID the next process gets
NextPid == CHOOSE p \in NewPids \ {r.pid : r \in spawned} :
             \A q \in NewPids \ {r.pid : r \in spawned} : p <= q

\* const child = spawnDetached([script])
SpawnDetached(s) ==
  /\ starters[s].at = "spawn"
  /\ NewPids \ {r.pid : r \in spawned} # {}
  /\ alive' = alive \cup {NextPid}
  /\ spawned' = spawned \cup {[worker |-> starters[s].worker, pid |-> NextPid]}
  /\ starters' = [starters EXCEPT ![s].child = NextPid, ![s].at = "write"]
  /\ UNCHANGED <<pidFiles, tokenText, tokenWasSet>>

\* await writePid(path, child.pid)
WritePid(s) ==
  /\ starters[s].at = "write"
  /\ pidFiles' = [pidFiles EXCEPT ![starters[s].worker] = writePid(starters[s].child)]
  /\ Leaves(s)
  /\ UNCHANGED <<alive, spawned, tokenText, tokenWasSet>>

\* a worker exits
WorkerDies(pid) ==
  /\ pid \in alive
  /\ alive' = alive \ {pid}
  /\ UNCHANGED <<pidFiles, starters, spawned, tokenText, tokenWasSet>>

\* the token file is written (by the auth worker) or removed
TokenChanges(text) ==
  /\ text # tokenText
  /\ tokenText' = text
  /\ tokenWasSet' = (tokenWasSet \/ (text.exists /\ text.raw # <<>>))
  /\ UNCHANGED <<pidFiles, alive, starters, spawned>>

\* what start, the workers and the token file do, whoever may begin
StartSteps ==
  \/ \E s \in Starters : StartReadPid(s) /\ UNCHANGED offstage
  \/ \E s \in Starters : StartProbe(s) /\ UNCHANGED offstage
  \/ \E s \in Starters : \E unlinks \in BOOLEAN : StartRemovePid(s, unlinks) /\ UNCHANGED offstage
  \/ \E s \in Starters : WaitForToken(s) /\ UNCHANGED offstage
  \/ \E s \in Starters : InterruptStart(s) /\ UNCHANGED offstage
  \/ \E s \in Starters : SpawnDetached(s) /\ UNCHANGED offstage
  \/ \E s \in Starters : WritePid(s) /\ UNCHANGED offstage
  \/ \E pid \in Pids \cup NewPids : WorkerDies(pid) /\ UNCHANGED offstage
  \/ \E text \in TokenTexts : TokenChanges(text) /\ UNCHANGED offstage

\* start is run again and again, one invocation at a time
NextStart ==
  \/ \E s \in Starters : \E configOk \in BOOLEAN :
       Alone(s) /\ BeginStart(s, configOk) /\ UNCHANGED offstage
  \/ StartSteps

SpecStart == InitStart /\ [][NextStart]_vars

\* start is run twice, the second time while the first may be at work
NextRace ==
  \/ \E s \in Starters : \E configOk \in BOOLEAN :
       starters[s].at = "idle" /\ BeginStart(s, configOk) /\ UNCHANGED offstage
  \/ StartSteps

SpecRace == InitStart /\ [][NextRace]_vars

\* the invocation s takes a step
Acts(s) == starters'[s] # starters[s]
\* the live workers of a kind that start knows of
LiveWorkers(w) == {r.pid : r \in {x \in spawned : x.worker = w /\ x.pid \in alive}}
\* the workers of a kind that invocations of start have spawned
FreshWorkers(w) == {r.pid : r \in {x \in spawned : x.worker = w /\ x.pid \in NewPids}}
\* no invocation is at work
AllEnded == \A s \in Starters : starters[s].at \in Ended
\* the PID file of the kind records the PID
Records(w, pid) == readPid(pidFiles[w]) = [null |-> FALSE, value |-> pid]

\* C31 (auth first, sync after the token): start turns to the sync worker,
\* and so to its wait for the token, only after it has found the recorded
\* auth worker alive or has spawned an auth worker and recorded its PID; it
\* spawns a sync worker only when the token file has held content; and as
\* long as the token file has never held content no sync worker has been
\* spawned and no step writes the sync PID file (a stale one may be removed).
C31_AuthFirstSyncAfterToken ==
  [][ /\ \A s \in Starters :
           /\ (starters[s].worker = "auth" /\ starters'[s].worker = "sync") =>
                \/ /\ starters[s].at = "probe"
                   /\ truthy(starters[s].pid) /\ starters[s].pid.value \in alive
                   /\ UNCHANGED <<pidFiles, alive, spawned>>
                \/ /\ starters[s].at = "write"
                   /\ [worker |-> "auth", pid |-> starters[s].child] \in spawned
                   /\ starters[s].child \in NewPids
                   /\ pidFiles'["auth"] = writePid(starters[s].child)
           /\ starters'[s].at = "wait" => starters[s].worker = "sync"
           /\ (Acts(s) /\ starters[s].worker = "sync" /\ spawned' # spawned) =>
                tokenWasSet
      /\ ~tokenWasSet' =>
           /\ FreshWorkers("sync")' = {}
           /\ pidFiles'["sync"] \in {pidFiles["sync"], "absent"}
    ]_vars

\* start has spawned both workers, the sync worker with the token there,
\* and both PID files record them
C31_Witness ==
  /\ AllEnded
  /\ tokenReady(tokenText)
  /\ \E p \in FreshWorkers("auth"), q \in FreshWorkers("sync") :
       p < q /\ Records("auth", p) /\ Records("sync", q) /\ {p, q} \subseteq alive

\* at most one live worker of each kind
OneLiveWorker == \A w \in Workers : Cardinality(LiveWorkers(w)) <= 1
\* with no start at work, the live workers are the recorded ones
LiveRecorded == AllEnded => \A w \in Workers : \A p \in LiveWorkers(w) : Records(w, p)
\* what start read from the PID file of a process that was dead at the probe
Stale(s) == truthy(starters[s].pid) /\ starters[s].pid.value \notin alive

\* C32 (start again): a start that finds the recorded worker alive goes
\* past it: it spawns nothing and changes no PID file; a start that finds
\* the recorded process dead removes the file, spawns a worker with a new
\* PID and writes that PID to the file; only such a start, or one that
\* found no PID, removes, spawns or writes; and with starts run one after
\* another at most one known worker of each kind is alive, which the PID
\* file records once start has ended.
C32_StartAgain ==
  [][ /\ \A s \in Starters :
           /\ (Acts(s) /\ starters[s].at = "probe" /\ truthy(starters[s].pid)
                 /\ starters[s].pid.value \in alive) =>
                /\ UNCHANGED <<pidFiles, alive, spawned>>
                /\ starters'[s].at \in {"read", "done"}
           /\ (Acts(s) /\ starters[s].at = "probe" /\ Stale(s)) => starters'[s].at = "remove"
           /\ (Acts(s) /\ starters[s].at = "remove") =>
                \/ starters'[s].at = "failed" /\ pidFiles' = pidFiles
                \/ /\ pidFiles'[starters[s].worker] = "absent"
                   /\ starters'[s].at \in {"spawn", "wait"}
           /\ (Acts(s) /\ starters[s].at = "spawn") =>
                /\ starters'[s].child \in alive' \ alive
                /\ starters'[s].child \notin {r.pid : r \in spawned}
                /\ starters'[s].child \in LiveWorkers(starters[s].worker)'
           /\ (Acts(s) /\ starters[s].at = "write") =>
                /\ pidFiles'[starters[s].worker] = writePid(starters[s].child)
                /\ starters[s].child # starters[s].pid.value
           /\ starters'[s].at \in {"remove", "spawn", "write", "wait"} =>
                ~(truthy(starters'[s].pid) /\ starters'[s].pid.value \in alive')
      /\ \A w \in Workers :
           (pidFiles'[w] # pidFiles[w] \/ FreshWorkers(w)' # FreshWorkers(w)) =>
             \E s \in Starters :
               Acts(s) /\ starters[s].worker = w /\ starters[s].at \in {"remove", "spawn", "write"}
      /\ OneLiveWorker /\ OneLiveWorker'
      /\ LiveRecorded /\ LiveRecorded'
    ]_vars

\* two starts have run to their end one after the other: the recorded
\* sync worker was dead and has been replaced once, the recorded auth
\* worker was alive and has been left, and both files record a live worker
C32_Witness ==
  /\ \A s \in Starters : starters[s].at = "done"
  /\ [worker |-> "sync", pid |-> OldPid["sync"]] \in spawned
  /\ OldPid["sync"] \notin alive
  /\ Cardinality(FreshWorkers("sync")) = 1
  /\ \E p \in FreshWorkers("sync") : p \in alive /\ Records("sync", p)
  /\ FreshWorkers("auth") = {}
  /\ OldPid["auth"] \in alive /\ Records("auth", OldPid["auth"])

\* C40 as stated: however two starts that run at the same time
\* interleave, no two workers of a kind that start has spawned are alive,
\* and once both starts have ended each PID file records the PID of the
\* live worker of its kind.
C40_RaceSpawnsOnce ==
  /\ \A w \in Workers : \A p, q \in FreshWorkers(w) : {p, q} \subseteq alive => p = q
  /\ AllEnded => \A w \in Workers : \A p \in FreshWorkers(w) : p \in alive => Records(w, p)
====
